---------------------------- MODULE Spec2Model ----------------------------
(***************************************************************************)
(* A model of the booking calendar's recurring-event core                  *)
(* (EventRecurrence, EventItem, the period predicates and                  *)
(* EventCalendar.addEventToCalendar) as a state machine.                   *)
(*                                                                         *)
(* Time is counted in whole days: a Date is the number of days since       *)
(* 1970-01-01, and a numeric timestamp is read in the same unit.  Strings  *)
(* are sequences of one-character strings, so that toLowerCase, parseInt   *)
(* and the date parsers are computed character by character.               *)
(***************************************************************************)
EXTENDS Integers, Sequences, FiniteSets, TLC

(***************************************************************************)
(* Bounds of the model.                                                    *)
(***************************************************************************)
\* the largest recurrence interval a raw rule of the model carries
MaxInterval == 2
\* the largest occurrence count a raw rule of the model carries as its end
MaxCount == 3
\* the cap on the iterator cursor (EventItem._index) and on the rule's _index:
\* a loop that is still running at the cap has not stopped
MaxIndex == 70
\* the cap on the number of getNextEventInstance / getNextRecurrenceDate calls
\* the caller of the API makes on one object
MaxCalls == 4
\* how many occurrences past the one a scan stopped at are looked at
MaxLookahead == 3
\* the events of one getEventsData pass are at most MaxEvents
MaxEvents == 3
\* the limits of a getEventsData pass are 0 (no limit) .. MaxLimit
MaxLimit == 1
\* the number of times the plugin is called on the element
MaxPluginCalls == 2
\* the number of queries (_getEvents calls) made on the calendar
MaxQueries == 3
\* how many months away from the current month the arrows are followed
MaxShift == 1
\* the number of setTimeout callbacks of the drag-and-drop helper pending at
\* one time
MaxTimers == 2
\* the number of event instances listed for the day shown
MaxRoutine == 2

(***************************************************************************)
(* JavaScript values.  t is the kind of the value, n its number (a count,  *)
(* or a Date's day number) and s its characters.                           *)
(***************************************************************************)
JSValue(t, n, s) == [t |-> t, n |-> n, s |-> s]
Undefined == JSValue("undefined", 0, <<>>)
JSNull == JSValue("null", 0, <<>>)
NaN == JSValue("nan", 0, <<>>)
Num(k) == JSValue("number", k, <<>>)
Str(s) == JSValue("string", 0, s)
Bool(b) == JSValue("boolean", IF b THEN 1 ELSE 0, <<>>)
PlainObject == JSValue("object", 0, <<>>)
DateV(n) == JSValue("date", n, <<>>)
InvalidDate == JSValue("invaliddate", 0, <<>>)

\* typeof v
TypeOf(v) ==
    CASE v.t \in {"null", "date", "invaliddate", "object"} -> "object"
      [] v.t \in {"number", "nan"} -> "number"
      [] OTHER -> v.t

\* ToBoolean(v): what `if (v)` and `!v` test
Truthy(v) ==
    CASE v.t \in {"undefined", "null", "nan"} -> FALSE
      [] v.t = "number" -> v.n # 0
      [] v.t = "boolean" -> v.n = 1
      [] v.t = "string" -> Len(v.s) > 0
      [] OTHER -> TRUE

\* `v.getMonth` is truthy: v is a Date object (valid or not)
HasGetMonth(v) == v.t \in {"date", "invaliddate"}

IsDate(v) == v.t = "date"

(***************************************************************************)
(* Strings.                                                                *)
(***************************************************************************)
UpperCase == <<"A","B","C","D","E","F","G","H","I","J","K","L","M",
               "N","O","P","Q","R","S","T","U","V","W","X","Y","Z">>
LowerCase == <<"a","b","c","d","e","f","g","h","i","j","k","l","m",
               "n","o","p","q","r","s","t","u","v","w","x","y","z">>
Digits == <<"0","1","2","3","4","5","6","7","8","9">>

S_none == <<"n","o","n","e">>
S_day == <<"d","a","y">>
S_week == <<"w","e","e","k">>
S_month == <<"m","o","n","t","h">>
S_year == <<"y","e","a","r">>
S_timestamp == <<"t","i","m","e","s","t","a","m","p">>
S_yyyyMMdd == <<"y","y","y","y","M","M","d","d">>

\* String.prototype.toLowerCase
toLowerCase(s) ==
    [i \in 1..Len(s) |->
        IF \E k \in 1..26 : UpperCase[k] = s[i]
        THEN LowerCase[CHOOSE k \in 1..26 : UpperCase[k] = s[i]]
        ELSE s[i]]

IsDigit(c) == \E k \in 1..10 : Digits[k] = c
DigitValue(c) == (CHOOSE k \in 1..10 : Digits[k] = c) - 1

RECURSIVE DigitsPrefix(_, _)
\* the length of the longest run of digits of s that starts at position i
DigitsPrefix(s, i) ==
    IF i <= Len(s) /\ IsDigit(s[i]) THEN 1 + DigitsPrefix(s, i + 1) ELSE 0

RECURSIVE DecimalValue(_, _, _)
\* the value of the digits s[i..j] read in base 10
DecimalValue(s, i, j) ==
    IF j < i THEN 0 ELSE 10 * DecimalValue(s, i, j - 1) + DigitValue(s[j])

RECURSIVE SkipSpaces(_, _)
SkipSpaces(s, i) ==
    IF i <= Len(s) /\ s[i] = " " THEN SkipSpaces(s, i + 1) ELSE i

\* parseInt(s, 10) of a string: leading blanks, an optional sign, then the
\* longest run of digits; NaN when there is no digit
parseIntString(s) ==
    LET b == SkipSpaces(s, 1)
        signed == b <= Len(s) /\ s[b] \in {"-", "+"}
        i == IF signed THEN b + 1 ELSE b
        len == DigitsPrefix(s, i)
        abs == DecimalValue(s, i, i + len - 1)
    IN  IF len = 0 THEN NaN
        ELSE Num(IF signed /\ s[b] = "-" THEN 0 - abs ELSE abs)

\* parseInt(v, 10): the argument is converted to a string first; the numbers
\* of the model are integers, which print as their digits
parseInt(v) ==
    CASE v.t = "number" -> Num(v.n)
      [] v.t = "string" -> parseIntString(v.s)
      [] OTHER -> NaN

(***************************************************************************)
(* The calendar: day numbers and their year, month (Jan = 0) and day of    *)
(* the month, as Date's getters give them.                                 *)
(***************************************************************************)
isLeapYear(y) == (y % 4 = 0 /\ y % 100 # 0) \/ y % 400 = 0

\* Date.getDaysInMonth(year, month), month 0..11
getDaysInMonth(y, m) ==
    IF m = 1 THEN (IF isLeapYear(y) THEN 29 ELSE 28)
    ELSE IF m \in {3, 5, 8, 10} THEN 30 ELSE 31

\* new Date(y, m, d): the day number of a calendar date (m is 0..11)
DayNumber(y, m, d) ==
    LET yy == IF m <= 1 THEN y - 1 ELSE y
        era == yy \div 400
        yoe == yy - era * 400
        mp == IF m >= 2 THEN m - 2 ELSE m + 10
        doy == (153 * mp + 2) \div 5 + d - 1
        doe == yoe * 365 + yoe \div 4 - yoe \div 100 + doy
    IN  era * 146097 + doe - 719468

\* the calendar date of a day number, in steps: the year y counted from
\* March, the month m (Jan = 0) and the day d
CivilRecord(y, m, d) == [y |-> y + (IF m <= 1 THEN 1 ELSE 0), m |-> m, d |-> d]
\* mp is the month counted from March, doy the day counted from 1 March
CivilOfMonth(y, doy, mp) ==
    CivilRecord(y, IF mp < 10 THEN mp + 2 ELSE mp - 10, doy - (153 * mp + 2) \div 5 + 1)
CivilOfDayOfYear(y, doy) == CivilOfMonth(y, doy, (5 * doy + 2) \div 153)
\* yoe is the year of the 400-year era, doe the day of the era
CivilOfYear(era, doe, yoe) ==
    CivilOfDayOfYear(yoe + era * 400, doe - (365 * yoe + yoe \div 4 - yoe \div 100))
CivilOfDayOfEra(era, doe) ==
    CivilOfYear(era, doe,
                (doe - doe \div 1460 + doe \div 36524 - doe \div 146096) \div 365)
CivilOfEra(z, era) == CivilOfDayOfEra(era, z - era * 146097)
CivilDate(n) == CivilOfEra(n + 719468, (n + 719468) \div 146097)

getFullYear(date) == CivilDate(date.n).y
getMonth(date) == CivilDate(date.n).m
getDate(date) == CivilDate(date.n).d

(***************************************************************************)
(* The date library's arithmetic and comparisons on valid dates.           *)
(***************************************************************************)
addDays(date, k) == DateV(date.n + k)
addWeeks(date, k) == addDays(date, 7 * k)

\* the day of the month is kept, cut down to the length of the target month
setMonth(y, m, d, last) == DateV(DayNumber(y, m, IF d < last THEN d ELSE last))
addMonthsCivil(d, total) ==
    setMonth(total \div 12, total % 12, d, getDaysInMonth(total \div 12, total % 12))
addMonthsFrom(c, k) == addMonthsCivil(c.d, c.y * 12 + c.m + k)
addMonths(date, k) == addMonthsFrom(CivilDate(date.n), k)

addYears(date, k) == addMonths(date, 12 * k)

isAfter(a, b) == a.n > b.n
isBefore(a, b) == a.n < b.n
between(d, start, end) == d.n >= start.n /\ d.n <= end.n


(***************************************************************************)
(* The date parsers.  A date string of the model is either the compact     *)
(* form yyyyMMdd, which Date.parseExact reads under the format "yyyyMMdd", *)
(* or the form yyyy-MM-dd, which the default parser Date.parse reads.      *)
(***************************************************************************)
AllDigits(s, i, j) == \A k \in i..j : IsDigit(s[k])

\* a Date for year y, month m (1..12) and day d, or null when there is no such day
CalendarDate(y, m, d) ==
    IF m \in 1..12 /\ d >= 1 /\ d <= getDaysInMonth(y, m - 1)
    THEN DateV(DayNumber(y, m - 1, d))
    ELSE JSNull

\* Date.parseExact(s, "yyyyMMdd")
parseExact(s, format) ==
    IF format = S_yyyyMMdd /\ Len(s) = 8 /\ AllDigits(s, 1, 8)
    THEN CalendarDate(DecimalValue(s, 1, 4), DecimalValue(s, 5, 6), DecimalValue(s, 7, 8))
    ELSE JSNull

\* Date.parse(v): null for anything that is not a date string
parse(v) ==
    IF v.t = "string" /\ Len(v.s) = 10 /\ v.s[5] = "-" /\ v.s[8] = "-"
       /\ AllDigits(v.s, 1, 4) /\ AllDigits(v.s, 6, 7) /\ AllDigits(v.s, 9, 10)
    THEN CalendarDate(DecimalValue(v.s, 1, 4), DecimalValue(v.s, 6, 7), DecimalValue(v.s, 9, 10))
    ELSE JSNull

\* new Date(v) for a number (a timestamp), NaN or a Date
newDate(v) ==
    CASE v.t = "number" -> DateV(v.n)
      [] v.t = "date" -> DateV(v.n)
      [] OTHER -> InvalidDate

\* a string date read under dateFormat (a truthy string): lines 131 and 398
parseWithFormat(s, dateFormat) ==
    IF toLowerCase(dateFormat.s) = S_timestamp
    THEN newDate(parseIntString(s))
    ELSE parseExact(s, dateFormat.s)

(***************************************************************************)
(* EventRecurrence.                                                        *)
(***************************************************************************)
\* a raw recurrence object of the JSON
RawRecurrence(type, interval, end) ==
    [t |-> "object", type |-> type, interval |-> interval, end |-> end]
\* the recurrence property is absent, or null
NoRecurrence(t) ==
    [t |-> t, type |-> Undefined, interval |-> Undefined, end |-> Undefined]

\* the state _setRecurrenceToNone leaves
RecurrenceNone ==
    [type |-> S_none, interval |-> 0, end |-> Str(S_none), _index |-> 0]

\* the outcome of a constructor: the object, its _error flag, the number of
\* onError calls made and whether a TypeError escaped
Constructed(obj, error, calls, threw) ==
    [obj |-> obj, _error |-> error, onErrorCalls |-> calls, threw |-> threw]

\* _recurrenceError(msg) with a non-empty message
_recurrenceError(onError) ==
    Constructed(RecurrenceNone, TRUE, IF onError THEN 1 ELSE 0, FALSE)

\* a || b
Or(a, b) == IF Truthy(a) THEN a ELSE b

\* a string end, lower being its lower-case form: lines 126-136
recurrenceEndString(end, lower, dateFormat) ==
    IF lower = <<>> \/ lower = S_none THEN Str(S_none)
    ELSE Or(IF Truthy(dateFormat) THEN parseWithFormat(end.s, dateFormat)
            ELSE Str(lower),
            parse(end))

\* the end property as _initialise reads it: lines 119-137.  "threw" is the
\* TypeError of reading getMonth of null
recurrenceEnd(end, dateFormat) ==
    CASE end.t = "undefined" -> [v |-> Str(S_none), threw |-> FALSE]
      [] end.t = "null" -> [v |-> Str(S_none), threw |-> TRUE]
      [] HasGetMonth(end) -> [v |-> end, threw |-> FALSE]
      [] TypeOf(end) = "number" -> [v |-> parseInt(end), threw |-> FALSE]
      [] TypeOf(end) = "string" ->
            [v |-> recurrenceEndString(end, toLowerCase(end.s), dateFormat),
             threw |-> FALSE]
      [] OTHER -> [v |-> Str(S_none), threw |-> FALSE]

\* _initialise from line 103 on, with the type in lower case, the interval
\* and the end as lines 102, 113 and 119-137 read them
initialiseRecurrence(recurType, interval, end, onError) ==
    IF recurType = S_none
    THEN Constructed(RecurrenceNone, FALSE, 0, FALSE)
    ELSE IF recurType \notin {S_day, S_week, S_month, S_year}
    THEN _recurrenceError(onError)
    ELSE IF ~Truthy(interval) \/ interval.n < 1
    THEN _recurrenceError(onError)
    ELSE IF end.threw
    THEN Constructed([type |-> recurType, interval |-> interval.n,
                      end |-> Str(S_none), _index |-> 0], FALSE, 0, TRUE)
    ELSE IF ~Truthy(end.v)
    THEN _recurrenceError(onError)
    ELSE Constructed([type |-> recurType, interval |-> interval.n,
                      end |-> end.v, _index |-> 0], FALSE, 0, FALSE)

\* new EventRecurrence(recurrence, dateFormat, onError): _initialise
EventRecurrence(recurrence, dateFormat, onError) ==
    IF recurrence.t # "object" \/ ~Truthy(recurrence.type)
    THEN _recurrenceError(onError)
    ELSE IF TypeOf(recurrence.type) # "string"
    THEN \* recurrence.type.toLowerCase is not a function
         Constructed(RecurrenceNone, FALSE, 0, TRUE)
    ELSE initialiseRecurrence(toLowerCase(recurrence.type.s),
                              IF Truthy(recurrence.interval)
                              THEN parseInt(recurrence.interval) ELSE Num(0),
                              recurrenceEnd(recurrence.end, dateFormat), onError)

\* the end check with the count compared by > in the place of >=: a rule
\* that ends after N occurrences would then have N + 1
pastEndInclusive(rule, recurDate, index) ==
    /\ rule.end # Str(S_none)
    /\ \/ HasGetMonth(rule.end) /\ isAfter(recurDate, rule.end)
       \/ TypeOf(rule.end) = "number" /\ index > rule.end.n
\* the end check without the comparison to an end date
pastEndCountOnly(rule, recurDate, index) ==
    /\ rule.end # Str(S_none)
    /\ TypeOf(rule.end) = "number" /\ index >= rule.end.n
\* the end check of getNextRecurrenceDate: lines 210-221
pastEnd(rule, recurDate, index) ==
    /\ rule.end # Str(S_none)
    /\ \/ HasGetMonth(rule.end) /\ isAfter(recurDate, rule.end)
       \/ TypeOf(rule.end) = "number" /\ index >= rule.end.n

\* the switch with every step one unit long, whatever the interval
advanceOneUnit(rule, date) ==
    CASE rule.type = S_day -> addDays(date, 1)
      [] rule.type = S_week -> addWeeks(date, 1)
      [] rule.type = S_month -> addMonths(date, 1)
      [] rule.type = S_year -> addYears(date, 1)
      [] OTHER -> JSNull

\* the date one step after `date`: the switch of lines 188-208
advance(rule, date) ==
    CASE rule.type = S_day -> addDays(date, rule.interval)
      [] rule.type = S_week -> addWeeks(date, rule.interval)
      [] rule.type = S_month -> addMonths(date, rule.interval)
      [] rule.type = S_year -> addYears(date, rule.interval)
      [] OTHER -> JSNull

\* lines 210-223 for the date recurDate the switch gave, _index being index
checkPastEnd(rule, recurDate, index) ==
    [date |-> IF recurDate # JSNull /\ pastEnd(rule, recurDate, index)
              THEN JSNull ELSE recurDate,
     rule |-> [rule EXCEPT !._index = index]]
\* a step that leaves _index as it was
steppedInPlace(rule, recurDate) == checkPastEnd(rule, recurDate, rule._index)
\* the step made, _index is one more when the type is one that recurs
stepped(rule, recurDate) ==
    checkPastEnd(rule, recurDate,
                 IF recurDate = JSNull THEN rule._index ELSE rule._index + 1)
\* getNextRecurrenceDate(date) on `rule`: the date returned (or null) and the
\* rule with its _index as the call leaves it
getNextRecurrenceDate(rule, date) ==
    IF ~Truthy(date) THEN [date |-> JSNull, rule |-> rule]
    ELSE stepped(rule, advance(rule, date))

RECURSIVE recurrenceLoop(_, _, _, _)
RECURSIVE recurrenceStep(_, _, _, _)
\* the while loop of getRecurrenceDate: i steps are done, index are wanted
recurrenceLoop(rule, recurDate, i, index) ==
    IF i < index
    THEN recurrenceStep(rule, getNextRecurrenceDate(rule, recurDate), i, index)
    ELSE [date |-> recurDate, rule |-> [rule EXCEPT !._index = i]]
\* the body of the loop once getNextRecurrenceDate has returned `next`
recurrenceStep(rule, next, i, index) ==
    IF ~Truthy(next.date)
    THEN [date |-> JSNull, rule |-> [rule EXCEPT !._index = i]]
    ELSE recurrenceLoop(next.rule, next.date, i + 1, index)

\* getRecurrenceDate without the reset of _index at line 163
getRecurrenceDateCountingOn(rule, date, index) ==
    IF ~Truthy(date) \/ index < 0 THEN [date |-> JSNull, rule |-> rule]
    ELSE recurrenceLoop(rule, newDate(date), 0, index)
\* getRecurrenceDate with index 0 refused like a negative index
getRecurrenceDateFromOne(rule, date, index) ==
    IF ~Truthy(date) \/ index <= 0 THEN [date |-> JSNull, rule |-> rule]
    ELSE recurrenceLoop([rule EXCEPT !._index = 0], newDate(date), 0, index)
\* getRecurrenceDate(date, index) on `rule`
getRecurrenceDate(rule, date, index) ==
    IF ~Truthy(date) \/ index < 0 THEN [date |-> JSNull, rule |-> rule]
    ELSE recurrenceLoop([rule EXCEPT !._index = 0], newDate(date), 0, index)

(***************************************************************************)
(* EventItem.                                                              *)
(***************************************************************************)
\* a raw event record of the JSON
RawEvent(id, startDate, date, endDate, offset, days, recurrence, title, type) ==
    [t |-> "object", id |-> id, startDate |-> startDate, date |-> date,
     endDate |-> endDate, listingStartOffset |-> offset,
     listingNumberOfDays |-> days, recurrence |-> recurrence,
     title |-> title, description |-> title, url |-> Undefined,
     classEvent |-> Undefined, classTitle |-> Undefined,
     classDescription |-> Undefined, type |-> type]

\* null in the place of a record
NullEvent ==
    [t |-> "null", id |-> Undefined, startDate |-> Undefined, date |-> Undefined,
     endDate |-> Undefined, listingStartOffset |-> Undefined,
     listingNumberOfDays |-> Undefined, recurrence |-> NoRecurrence("undefined"),
     title |-> Undefined, description |-> Undefined, url |-> Undefined,
     classEvent |-> Undefined, classTitle |-> Undefined,
     classDescription |-> Undefined, type |-> Undefined]

\* the state _setEventToNone leaves (with the cursor _index of the closure)
EventNone ==
    [recurrence |-> JSNull, id |-> JSNull, startDate |-> JSNull, endDate |-> JSNull,
     listingStartOffset |-> 0, listingNumberOfDays |-> 1,
     title |-> JSNull, description |-> JSNull, url |-> JSNull,
     classEvent |-> JSNull, classTitle |-> JSNull, classDescription |-> JSNull,
     _index |-> 0]

\* _eventItemError(msg) with a non-empty message
_eventItemError(onError) ==
    Constructed(EventNone, TRUE, IF onError THEN 1 ELSE 0, FALSE)

\* _newDate(date, dateFormat)
_newDate(date, dateFormat) ==
    IF ~Truthy(date) THEN JSNull
    ELSE Or(CASE HasGetMonth(date) -> date
              [] TypeOf(date) = "number" -> newDate(date)
              [] TypeOf(date) = "string" /\ Truthy(dateFormat) ->
                     parseWithFormat(date.s, dateFormat)
              [] OTHER -> JSNull,
            parse(date))

\* a || b on a numeric property
OrDefault(v, default) == IF Truthy(v) THEN v.n ELSE default

\* event.listingNumberOfDays || 1
listingNumberOfDays(event) == OrDefault(event.listingNumberOfDays, 1)

\* _initialise from line 418 on: `recurrence` is what the EventRecurrence
\* constructor gave, startDate the start date lines 422-426 settle on
initialiseEvent(event, dateFormat, recurrence, startDate) ==
    IF recurrence.threw
    THEN Constructed([EventNone EXCEPT !.recurrence = JSNull], FALSE, 0, TRUE)
    ELSE Constructed(
           [recurrence |-> recurrence.obj, id |-> event.id,
            startDate |-> startDate,
            endDate |-> IF Truthy(event.endDate)
                        THEN _newDate(event.endDate, dateFormat)
                        ELSE _newDate(startDate, Undefined),
            listingStartOffset |-> OrDefault(event.listingStartOffset, 0),
            listingNumberOfDays |-> listingNumberOfDays(event),
            title |-> event.title, description |-> event.description,
            url |-> event.url, classEvent |-> event.classEvent,
            classTitle |-> event.classTitle,
            classDescription |-> Or(event.classDescription, event.type),
            _index |-> 0],
           FALSE, 0, FALSE)

\* new EventItem(event, dateFormat, onError): _initialise.  The recurrence is
\* built without an error callback (line 418)
EventItem(event, dateFormat, onError) ==
    IF event.t # "object" THEN _eventItemError(onError)
    ELSE initialiseEvent(event, dateFormat,
                         EventRecurrence(event.recurrence, dateFormat, FALSE),
                         Or(IF Truthy(event.startDate)
                            THEN _newDate(event.startDate, dateFormat) ELSE JSNull,
                            IF Truthy(event.date)
                            THEN _newDate(event.date, dateFormat) ELSE JSNull))

\* _dateDiffInDays(aDate, bDate): both dates cut to their calendar day
_dateDiffInDays(aDate, bDate) ==
    DayNumber(getFullYear(bDate), getMonth(bDate), getDate(bDate))
        - DayNumber(getFullYear(aDate), getMonth(aDate), getDate(aDate))

\* the end date of an occurrence taken from the start date of the event
occurrenceEndFromStart(item, eventStartDate) ==
    addDays(item.startDate, _dateDiffInDays(item.startDate, eventStartDate))

\* the end date of the occurrence that starts on eventStartDate: lines 312-313
occurrenceEnd(item, eventStartDate) ==
    addDays(item.endDate, _dateDiffInDays(item.startDate, eventStartDate))

\* new EventInstance() filled from the item: lines 331-342
EventInstance(item, eventStartDate, eventEndDate) ==
    [id |-> item.id, startDate |-> eventStartDate, endDate |-> eventEndDate,
     listingStartOffset |-> item.listingStartOffset,
     listingNumberOfDays |-> item.listingNumberOfDays,
     title |-> item.title, description |-> item.description, url |-> item.url,
     classEvent |-> item.classEvent, classTitle |-> item.classTitle,
     classDescription |-> item.classDescription]

\* datePeriodIsCurrent with the end of the period left out of it
datePeriodIsCurrentBeforeEnd(startDate, endDate, year, month, day) ==
    LET y == IF year >= 0 THEN 10000 ELSE 0
        m == IF month >= 0 THEN 100 ELSE 0
        d == IF day >= 0 THEN 1 ELSE 0
        start == getFullYear(startDate) * y + getMonth(startDate) * m + getDate(startDate) * d
        end == getFullYear(endDate) * y + getMonth(endDate) * m + getDate(endDate) * d
        dateToCheck == year * y + month * m + day * d
    IN  dateToCheck >= start /\ dateToCheck < end

\* EventItem.datePeriodIsCurrent(startDate, endDate, year, month, day);
\* an absent argument is -1
datePeriodIsCurrent(startDate, endDate, year, month, day) ==
    LET y == IF year >= 0 THEN 10000 ELSE 0
        m == IF month >= 0 THEN 100 ELSE 0
        d == IF day >= 0 THEN 1 ELSE 0
        start == getFullYear(startDate) * y + getMonth(startDate) * m + getDate(startDate) * d
        end == getFullYear(endDate) * y + getMonth(endDate) * m + getDate(endDate) * d
        dateToCheck == year * y + month * m + day * d
    IN  dateToCheck >= start /\ dateToCheck <= end

\* datePeriodIsInTheFuture without the comparison of the months
datePeriodIsInTheFutureByYear(eventInstance, year, month, day) ==
    LET listingStartDate == addDays(eventInstance.startDate, eventInstance.listingStartOffset)
        earliestEventDate == IF isBefore(eventInstance.startDate, listingStartDate)
                             THEN eventInstance.startDate ELSE listingStartDate
        y == IF year >= 0 THEN 10000 ELSE 0
        d == IF day >= 0 THEN 1 ELSE 0
        start == getFullYear(earliestEventDate) * y + getDate(earliestEventDate) * d
        check == year * y + day * d
    IN  check < start

\* EventItem.datePeriodIsInTheFuture(eventInstance, year, month, day)
datePeriodIsInTheFuture(eventInstance, year, month, day) ==
    LET listingStartDate == addDays(eventInstance.startDate, eventInstance.listingStartOffset)
        earliestEventDate == IF isBefore(eventInstance.startDate, listingStartDate)
                             THEN eventInstance.startDate ELSE listingStartDate
        y == IF year >= 0 THEN 10000 ELSE 0
        m == IF month >= 0 THEN 100 ELSE 0
        d == IF day >= 0 THEN 1 ELSE 0
        start == getFullYear(earliestEventDate) * y + getMonth(earliestEventDate) * m
                    + getDate(earliestEventDate) * d
        check == year * y + month * m + day * d
    IN  check < start

(***************************************************************************)
(* EventCalendar.addEventToCalendar.  A query is [year, month, day], each  *)
(* a number, -1 for no constraint.                                         *)
(***************************************************************************)
\* $.fn.eventCalendar.defaults, the part addEventToCalendar, getEventsData
\* and _getEvents read.  currentDate is Date.today(): the model runs on
\* 2018-12-30
DefaultSettings ==
    [startDate |-> DateV(DayNumber(2018, 0, 1)),
     endDate |-> DateV(DayNumber(2019, 0, 1)),
     groupEvents |-> FALSE, allowPartialEvents |-> FALSE,
     highlightEventDays |-> TRUE, highlightListingDays |-> FALSE,
     jsonDateFormat |-> Str(S_timestamp), sortAscending |-> TRUE,
     jsonData |-> Str(<<>>), cacheJson |-> FALSE, eventsLimit |-> Num(100),
     startTime |-> Str(<<"0","8",":","0","0">>),
     endTime |-> Str(<<"2","1",":","0","0">>),
     currentDate |-> DateV(DayNumber(2018, 11, 30))]

Query(year, month, day) == [year |-> year, month |-> month, day |-> day]

\* specificDate: line 909
specificDate(s, q) ==
    IF q.year < 0 \/ q.month < 0 \/ q.day < 0 THEN s.startDate
    ELSE DateV(DayNumber(q.year, q.month, 1) + q.day - 1)

\* _eventExistsInAllowedPeriod(startDate, endDate)
_eventExistsInAllowedPeriod(s, startDate, endDate) ==
    \/ between(startDate, s.startDate, s.endDate)
    \/ between(endDate, s.startDate, s.endDate)

\* the listing window of an instance: lines 978-981
listingStartDate(inst) == addDays(inst.startDate, inst.listingStartOffset)
listingEndDate(inst) == addDays(listingStartDate(inst), inst.listingNumberOfDays - 1)

\* eventIsCurrent: line 983
eventIsCurrent(inst, q) ==
    datePeriodIsCurrent(inst.startDate, inst.endDate, q.year, q.month, q.day)

\* _needToAddEventToList() without the test of line 926
_needToAddEventToListAnyPeriod(s, q, inst, itemAdded, lister) ==
    /\ lister
    /\ ~(itemAdded /\ s.groupEvents)
    /\ \/ ~s.allowPartialEvents
       \/ q.day < 1
       \/ between(specificDate(s, q), s.startDate, s.endDate)

\* _needToAddEventToList()
_needToAddEventToList(s, q, inst, itemAdded, lister) ==
    /\ lister
    /\ ~(itemAdded /\ s.groupEvents)
    /\ \/ eventIsCurrent(inst, q)
       \/ datePeriodIsCurrent(listingStartDate(inst), listingEndDate(inst),
                              q.year, q.month, q.day)
    /\ \/ ~s.allowPartialEvents
       \/ q.day < 1
       \/ between(specificDate(s, q), s.startDate, s.endDate)

\* _needToHighlightDayInCalendar() for dateToBeChecked
_needToHighlightDayInCalendar(s, q, dateToBeChecked) ==
    /\ ~(q.year # -1 /\ getFullYear(dateToBeChecked) # q.year)
    /\ ~(q.month # -1 /\ getMonth(dateToBeChecked) # q.month)
    /\ \/ ~s.allowPartialEvents
       \/ between(dateToBeChecked, s.startDate, s.endDate)

\* a pass that stops one day before `to`
highlightPassBeforeEnd(s, q, from, to) ==
    LET days == [i \in 1..(to.n - from.n) |-> DateV(from.n + i - 1)]
        wanted == SelectSeq(days, LAMBDA d : _needToHighlightDayInCalendar(s, q, d))
    IN  [i \in 1..Len(wanted) |-> getDate(wanted[i])]

\* the highlighter calls of one pass from `from` to `to`, in order: the day of
\* the month of each call
highlightPass(s, q, from, to) ==
    LET days == [i \in 1..(to.n - from.n + 1) |-> DateV(from.n + i - 1)]
        wanted == SelectSeq(days, LAMBDA d : _needToHighlightDayInCalendar(s, q, d))
    IN  [i \in 1..Len(wanted) |-> getDate(wanted[i])]

\* the highlighter calls made for one instance: lines 991-1015
highlights(s, q, inst) ==
    (IF s.highlightEventDays
     THEN highlightPass(s, q, inst.startDate, inst.endDate) ELSE <<>>)
    \o (IF s.highlightListingDays
        THEN highlightPass(s, q, listingStartDate(inst), listingEndDate(inst)) ELSE <<>>)

\* the test that ends the scan of an event: line 972
stopScan(inst, q) == datePeriodIsInTheFuture(inst, q.year, q.month, -1)

(***************************************************************************)
(* The inputs of the model.                                                *)
(***************************************************************************)
RECURSIVE toString(_)
\* the decimal digits of a number n >= 0
toString(n) ==
    IF n < 10 THEN <<Digits[n + 1]>> ELSE toString(n \div 10) \o <<Digits[(n % 10) + 1]>>

\* start dates: 2018-12-01, 2018-12-30 and the month end 2019-01-31
Anchors == {DayNumber(2018, 11, 1), DayNumber(2018, 11, 30), DayNumber(2019, 0, 31)}
\* end dates of a recurrence: 2018-12-15 (before two of the anchors) and
\* 2019-02-28 (the day a monthly step from 2019-01-31 lands on)
EndDates == {DayNumber(2018, 11, 15), DayNumber(2019, 1, 28)}

RecurrenceTypes == {S_day, S_week, S_month, S_year}

\* the raw recurrences that pass validation
ValidRecurrences ==
    {RawRecurrence(Str(type), Num(interval), e) :
        type \in RecurrenceTypes, interval \in 1..MaxInterval,
        e \in {Undefined, Str(S_none)} \cup {Num(n) : n \in 1..MaxCount}
                \cup {DateV(d) : d \in EndDates}}

S_bogus == <<"b","o","g","u","s">>
S_Month == <<"M","o","n","t","h">>
S_compact == <<"2","0","1","9","0","2","2","8">>
S_iso == <<"2","0","1","9","-","0","2","-","2","8">>

\* raw recurrences with one property changed from {type:'month', interval:1}
VariantRecurrences ==
    {RawRecurrence(type, Num(1), Undefined) :
        type \in {Undefined, JSNull, Str(<<>>), Str(S_none), Str(S_Month),
                  Str(S_bogus), Num(5)}}
    \cup {RawRecurrence(Str(S_month), interval, Undefined) :
        interval \in {Undefined, Num(0), Num(-1), NaN, Str(<<"2">>),
                      Str(<<"2", "x">>), Str(<<"x">>)}}
    \cup {RawRecurrence(Str(S_month), Num(1), e) :
        e \in {JSNull, Num(0), Num(-1), NaN, Str(<<>>), Str(<<"N","O","N","E">>),
               Str(S_compact), Str(S_iso), Str(S_bogus),
               Str(toString(DayNumber(2019, 1, 28))),
               PlainObject, Bool(TRUE), InvalidDate}}
    \cup {NoRecurrence("undefined"), NoRecurrence("null")}

\* the constructor arguments of the model: a rule that passes validation is
\* given without a date format, a variant under each format
RawRecurrences ==
    {[recurrence |-> r, dateFormat |-> Undefined] : r \in ValidRecurrences}
    \cup {[recurrence |-> r, dateFormat |-> f] :
            r \in VariantRecurrences,
            f \in {Undefined, Str(S_timestamp), Str(S_yyyyMMdd)}}

S_title == <<"T">>

\* the recurrences of the events of the model: endless, counted and dated
EventRecurrences ==
    {RawRecurrence(Str(type), Num(interval), e) :
        type \in RecurrenceTypes, interval \in 1..MaxInterval,
        e \in {Undefined, Num(MaxCount), DateV(DayNumber(2019, 1, 28))}}
    \cup {NoRecurrence("undefined")}

\* the start dates of the events: 2018-12-30 and 2019-01-31
EventAnchors == {DayNumber(2018, 11, 30), DayNumber(2019, 0, 31)}

\* events with a numeric start date and the default listing window
PlainEvents ==
    {[event |-> RawEvent(Num(7), Num(a), Undefined, Undefined, Undefined, Undefined,
                         r, Str(S_title), Undefined),
      dateFormat |-> Str(S_timestamp)] :
        a \in EventAnchors, r \in EventRecurrences}

\* the end date, listingStartOffset and listingNumberOfDays of the events
\* that last two or three days or have a listing window of their own
Listings ==
    {<<Num(DayNumber(2019, 0, 1)), Undefined, Undefined>>,
     <<Num(DayNumber(2018, 11, 31)), Undefined, Undefined>>,
     <<Undefined, Num(-2), Undefined>>, <<Undefined, Num(2), Undefined>>,
     <<Undefined, Undefined, Num(0)>>, <<Undefined, Undefined, Num(3)>>,
     <<Undefined, Undefined, Num(-1)>>,
     <<Num(DayNumber(2019, 0, 1)), Num(-2), Num(3)>>,
     <<Undefined, Num(2), Num(3)>>}

ListingEvents ==
    {[event |-> RawEvent(Num(7), Num(DayNumber(2018, 11, 30)), Undefined,
                         l[1], l[2], l[3], r, Str(S_title), Undefined),
      dateFormat |-> Str(S_timestamp)] :
        l \in Listings,
        r \in {NoRecurrence("undefined"),
               RawRecurrence(Str(S_week), Num(2), Num(3))}}

\* records that are null, lack a start date, give it in another form or
\* carry a recurrence that fails validation
OtherEvents ==
    {[event |-> NullEvent, dateFormat |-> Str(S_timestamp)]}
    \cup {[event |-> RawEvent(Num(7), Undefined, date, Undefined, Undefined, Undefined,
                              r, Str(S_title), Str(S_bogus)),
           dateFormat |-> Str(S_timestamp)] :
            date \in {Undefined, Num(DayNumber(2018, 11, 30))},
            r \in {NoRecurrence("undefined"),
                   RawRecurrence(Str(S_month), Num(1), Undefined)}}
    \cup {[event |-> RawEvent(Num(7), startDate, Undefined, Undefined, Undefined, Undefined,
                              NoRecurrence("undefined"), Str(S_title), Undefined),
           dateFormat |-> Str(S_yyyyMMdd)] :
            startDate \in {Str(S_compact), Str(S_iso), Str(S_bogus), DateV(DayNumber(2018, 11, 30))}}
    \cup {[event |-> RawEvent(Num(7), Num(DayNumber(2018, 11, 30)), Undefined, Undefined,
                              Undefined, Undefined, r, Str(S_title), Undefined),
           dateFormat |-> Str(S_timestamp)] :
            r \in {RawRecurrence(Str(S_bogus), Num(1), Undefined),
                   RawRecurrence(Num(5), Num(1), Undefined),
                   RawRecurrence(Str(S_month), Num(0), Undefined),
                   RawRecurrence(Str(S_month), Num(1), JSNull),
                   RawRecurrence(Str(S_month), Num(1), Num(-1)),
                   RawRecurrence(Str(S_none), Undefined, Undefined),
                   NoRecurrence("null")}}

\* the constructor arguments of the model: the error callback is given or
\* not with the records of OtherEvents, and not given with the others
RawEvents ==
    {[event |-> e.event, dateFormat |-> e.dateFormat, onError |-> FALSE] :
        e \in PlainEvents \cup ListingEvents \cup OtherEvents}
    \cup {[event |-> e.event, dateFormat |-> e.dateFormat, onError |-> TRUE] :
            e \in OtherEvents}

\* the year, month and day constraints of the model, -1 for none
Queries ==
    {<<-1, -1, -1>>, <<-1, 0, -1>>, <<-1, 11, -1>>, <<2018, -1, -1>>,
     <<2018, 0, -1>>, <<2018, 11, -1>>, <<2018, 11, 31>>, <<2019, 0, -1>>,
     <<2019, 0, 1>>, <<2019, 1, -1>>}
\* their year and month
Periods == {<<q[1], q[2]>> : q \in Queries}

\* the bounds of the periods EventItem.datePeriodIsCurrent is called on:
\* 2018-12-30, 2018-12-31, 2019-01-01 and 2019-01-31
PeriodDates ==
    {DayNumber(2018, 11, 30), DayNumber(2018, 11, 31), DayNumber(2019, 0, 1),
     DayNumber(2019, 0, 31)}
\* and the year, month and day it is called with: those above, more days and
\* the day 0
PeriodQueries ==
    Queries \cup {<<2018, 11, 30>>, <<2019, 0, 0>>, <<2019, 0, 31>>, <<2019, 1, 1>>}

\* the settings of the calendars of the model: the defaults and a calendar
\* that groups events, takes partial events and highlights listing days
Settings ==
    {DefaultSettings,
     [DefaultSettings EXCEPT !.groupEvents = TRUE, !.allowPartialEvents = TRUE,
                             !.highlightListingDays = TRUE]}

\* a calendar that takes partial events and allows the single day 2018-12-31
OneDaySettings ==
    [DefaultSettings EXCEPT !.startDate = DateV(DayNumber(2018, 11, 31)),
                            !.endDate = DateV(DayNumber(2018, 11, 31)),
                            !.allowPartialEvents = TRUE]

\* the calendars addEventToCalendar is called on and the year, month and day
\* of the calls: every query on the calendars of Settings, and no constraint
\* or December 2018 on the calendar of one day
Calendars ==
    {<<s, q>> : s \in Settings, q \in Queries}
    \cup {<<OneDaySettings, q>> : q \in {<<-1, -1, -1>>, <<2018, 11, -1>>}}

(***************************************************************************)
(* The state.                                                              *)
(***************************************************************************)
VARIABLES
    pc,          \* where the program is: "start", "EventRecurrence" or "EventItem"
                 \* (an object is built and idle), "_getEvent" or
                 \* "addEventToCalendar" (inside that function's while loop),
                 \* "returned" (addEventToCalendar is over), "threw",
                 \* "datePeriodIsCurrent" (the static function has returned),
                 \* "getEventsData" (before its first event), "listed" (the
                 \* pass is over)
    recurrence,  \* the raw recurrence the EventRecurrence was built from
    event,       \* the raw record the EventItem was built from
    dateFormat,  \* the constructor's dateFormat argument
    onError,     \* whether the constructor was given an onError callback
    outcome,     \* the last constructor's _error flag, onError calls and throw
    rule,        \* the EventRecurrence built on its own
    item,        \* the EventItem, its recurrence and its cursor _index
    call,        \* the running or last call: its name and arguments
    ret,         \* what the last call returned
    frame,       \* the locals of the running loop, and how the loop ended
    settings,    \* the settings of the calendar addEventToCalendar runs on
    callbacks,   \* the highlighter and lister calls made so far
    data,        \* the sorted events of the getEventsData pass, <<>> outside one
    limit,       \* the limit of the pass, 0 for none
    key,         \* the place in data of the event $.each is at, 0 outside a pass
    itemsInList, \* the items the lister of the pass has accepted
    sequence,    \* what the calls on the item have returned since
                 \* getFirstEventInstance, with their year and month
    page,        \* the element the plugin is called on: its data, its
                 \* attributes, the closure of its EventCalendar and the
                 \* requests in flight
    dnd,         \* the dnd object, window.$dndMovedElement and the timers set
    routine      \* the slot loop of getEventsData: its locals

vars == <<pc, recurrence, event, dateFormat, onError, outcome, rule, item,
          call, ret, frame, settings, callbacks, data, limit, key, itemsInList,
          sequence, page, dnd, routine>>

\* the variables of a getEventsData pass
passVars == <<data, limit, key, itemsInList>>
\* the variables of the page around the calendar
pageVars == <<page, dnd, routine>>
\* and with them the record of the calls on the item
restVars == <<sequence, pageVars>>

NoOutcome == [_error |-> FALSE, onErrorCalls |-> 0, threw |-> FALSE]
NoCall == [op |-> "", year |-> -1, month |-> -1, day |-> -1, lister |-> FALSE,
           date |-> JSNull, index |-> 0]
NoFrame == [eventStartDate |-> JSNull, eventEndDate |-> JSNull,
            eventInstance |-> JSNull, itemAdded |-> FALSE, exit |-> ""]
NoCallbacks == [highlighter |-> 0, lister |-> 0, listed |-> FALSE, days |-> <<>>,
                instance |-> JSNull]

\* the element before the plugin is called on it: no data, no
\* data-current-year and data-current-month attributes, nothing requested
\* The data of a query is a number: 0 for the {} eventsJson starts as, -1
\* for settings.jsonData, n for the response to the n-th query.
NoQuery == [n |-> 0, limit |-> 0, year |-> -1, month |-> -1, day |-> -1,
            direction |-> Undefined]
NoPage == [calls |-> 0, constructed |-> 0, eventCalendar |-> 0, handlers |-> 0,
           year |-> -1, month |-> -1, eventsJson |-> 0, pending |-> {},
           requests |-> 0, failed |-> FALSE,
           rendered |-> [data |-> 0, query |-> NoQuery], query |-> NoQuery]
\* new dnd(selector): t.$movedEvent and window.$dndMovedElement are undefined
\* (-1; 0 is false, an element is its number), no timer is pending, the mouse
\* button is up (pressed 0; -1 is down outside the elements, an element's
\* number is down on it) and no element has been positioned
NoDnd == [movedEvent |-> -1, dndMovedElement |-> -1, timers |-> 0, pressed |-> 0,
          left |-> 0, top |-> 0]
\* the locals of the slot loop before getEventsData shows a day or a month:
\* times are minutes from displayDate, list is the booking slots appended to
\* .eventsCalendar-list
NoRoutine == [displayed |-> FALSE, eventsInRoutine |-> <<>>, dayRoutineI |-> 0,
              datePeriod |-> 0, list |-> <<>>]

Init ==
    /\ pc = "start"
    /\ recurrence = NoRecurrence("undefined")
    /\ event = NullEvent
    /\ dateFormat = Undefined
    /\ onError = FALSE
    /\ outcome = NoOutcome
    /\ rule = RecurrenceNone
    /\ item = EventNone
    /\ call = NoCall
    /\ ret = Undefined
    /\ frame = NoFrame
    /\ settings = DefaultSettings
    /\ callbacks = NoCallbacks
    /\ data = <<>>
    /\ limit = 0
    /\ key = 0
    /\ itemsInList = 0
    /\ sequence = <<>>
    /\ page = NoPage
    /\ dnd = NoDnd
    /\ routine = NoRoutine

\* nothing is built yet: each run of the model builds one object
Idle == pc = "start"

\* the constructor `class` has ended with the outcome c: the object it
\* built, or the TypeError that escaped it
Built(class, c) ==
    /\ pc' = IF c.threw THEN "threw" ELSE class
    /\ outcome' = [_error |-> c._error, onErrorCalls |-> c.onErrorCalls,
                   threw |-> c.threw]
    /\ rule' = IF class = "EventRecurrence" THEN c.obj ELSE RecurrenceNone
    /\ item' = IF class = "EventItem" THEN c.obj ELSE EventNone

\* a method of the rule has returned r: the date and the rule as it is left
Returned(r) ==
    /\ rule' = r.rule
    /\ ret' = r.date

\* new EventRecurrence(raw, format, withOnError)
NewEventRecurrence(raw, format, withOnError) ==
    /\ Idle
    /\ Built("EventRecurrence", EventRecurrence(raw, format, withOnError))
    /\ recurrence' = raw
    /\ event' = NullEvent
    /\ dateFormat' = format
    /\ onError' = withOnError
    /\ call' = [NoCall EXCEPT !.op = "EventRecurrence"]
    /\ ret' = Undefined
    /\ frame' = NoFrame
    /\ settings' = DefaultSettings
    /\ callbacks' = NoCallbacks
    /\ UNCHANGED <<passVars, restVars>>

\* the rules whose end the date comparisons of the model are defined on
Iterable(r) == r.end.t \in {"string", "number", "date"}

\* rule.getRecurrenceDate(date, index)
GetRecurrenceDate(date, index) ==
    /\ pc = "EventRecurrence"
    /\ Iterable(rule)
    /\ Returned(getRecurrenceDate(rule, date, index))
    /\ call' = [NoCall EXCEPT !.op = "getRecurrenceDate", !.date = date,
                              !.index = index]
    /\ UNCHANGED <<pc, recurrence, event, dateFormat, onError, outcome, item,
                   frame, settings, callbacks, passVars, restVars>>

\* rule.getNextRecurrenceDate(date)
GetNextRecurrenceDate(date) ==
    /\ pc = "EventRecurrence"
    /\ Iterable(rule)
    /\ rule._index < MaxCalls
    /\ Returned(getNextRecurrenceDate(rule, date))
    /\ call' = [NoCall EXCEPT !.op = "getNextRecurrenceDate", !.date = date]
    /\ UNCHANGED <<pc, recurrence, event, dateFormat, onError, outcome, item,
                   frame, settings, callbacks, passVars, restVars>>

\* EventItem.datePeriodIsCurrent(startDate, endDate, q.year, q.month, q.day),
\* the static function called on its own
DatePeriodIsCurrent(startDate, endDate, q) ==
    /\ Idle
    /\ pc' = "datePeriodIsCurrent"
    /\ call' = [NoCall EXCEPT !.op = "datePeriodIsCurrent", !.year = q.year,
                              !.month = q.month, !.day = q.day]
    /\ frame' = [NoFrame EXCEPT !.eventStartDate = startDate,
                                !.eventEndDate = endDate]
    /\ ret' = Bool(datePeriodIsCurrent(startDate, endDate, q.year, q.month, q.day))
    /\ UNCHANGED <<recurrence, event, dateFormat, onError, outcome, rule, item,
                   settings, callbacks, passVars, restVars>>

\* new EventItem(raw.event, raw.dateFormat, withOnError)
NewEventItem(raw, withOnError) ==
    /\ Idle
    /\ Built("EventItem", EventItem(raw.event, raw.dateFormat, withOnError))
    /\ recurrence' = NoRecurrence("undefined")
    /\ event' = raw.event
    /\ dateFormat' = raw.dateFormat
    /\ onError' = withOnError
    /\ call' = [NoCall EXCEPT !.op = "EventItem"]
    /\ ret' = Undefined
    /\ frame' = NoFrame
    /\ settings' = DefaultSettings
    /\ callbacks' = NoCallbacks
    /\ UNCHANGED <<passVars, restVars>>

\* lines 311-313 with the occurrence date written over the item's own start
\* date, as stepping the item's Date object in place would do
eventHeadInPlace(it, r) ==
    IF Truthy(r.date)
    THEN [kind |-> "date",
          item |-> [it EXCEPT !.recurrence = r.rule, !.startDate = r.date],
          start |-> r.date, end |-> occurrenceEnd(it, r.date)]
    ELSE [kind |-> "null", item |-> [it EXCEPT !.recurrence = r.rule],
          start |-> JSNull, end |-> JSNull]

\* lines 311-313 of _getEvent, r being what getRecurrenceDate gave at line 310
eventHead(it, r) ==
    IF Truthy(r.date)
    THEN [kind |-> "date", item |-> [it EXCEPT !.recurrence = r.rule],
          start |-> r.date, end |-> occurrenceEnd(it, r.date)]
    ELSE [kind |-> "null", item |-> [it EXCEPT !.recurrence = r.rule],
          start |-> JSNull, end |-> JSNull]

\* _getEvent up to its while loop (lines 299-314) on an item whose cursor is
\* set: "null" (line 304, or no start date), "threw" (line 310 on a null
\* recurrence) or "date" with the occurrence at the cursor
getEventHead(it) ==
    IF it._index > 0 /\ (it.recurrence = JSNull \/ it.recurrence.type = S_none)
    THEN [kind |-> "null", item |-> it, start |-> JSNull, end |-> JSNull]
    ELSE IF it.recurrence = JSNull
    THEN [kind |-> "threw", item |-> it, start |-> JSNull, end |-> JSNull]
    ELSE eventHead(it, getRecurrenceDate(it.recurrence, it.startDate, it._index))

\* _getEvent(year, month) with the cursor at `cursor`: it returns at once
\* unless a constraint is given and there is an occurrence to test
GetEventFrom(op, head, year, month, loops) ==
    /\ pc = "EventItem"
    /\ item' = head.item
    /\ call' = [NoCall EXCEPT !.op = op, !.year = year, !.month = month]
    /\ pc' = CASE head.kind = "threw" -> "threw"
               [] loops -> "_getEvent"
               [] OTHER -> "EventItem"
    /\ frame' = IF loops
                THEN [NoFrame EXCEPT !.eventStartDate = head.start,
                                     !.eventEndDate = head.end]
                ELSE NoFrame
    /\ ret' = IF head.kind = "date" /\ ~loops
              THEN EventInstance(head.item, head.start, head.end)
              ELSE IF head.kind = "null" THEN JSNull ELSE Undefined
    /\ UNCHANGED <<recurrence, event, dateFormat, onError, outcome, rule,
                   settings, callbacks, passVars, pageVars>>

\* the while loop of line 317 is entered from `head`
entersLoop(head, year, month) == head.kind = "date" /\ (year >= 0 \/ month >= 0)

GetEventAt(op, head, year, month) ==
    GetEventFrom(op, head, year, month, entersLoop(head, year, month))

GetEvent(op, cursor, year, month) ==
    GetEventAt(op, getEventHead([item EXCEPT !._index = cursor]), year, month)

\* item.getFirstEventInstance(year, month)
GetFirstEventInstance(year, month) ==
    /\ GetEvent("getFirstEventInstance", 0, year, month)
    /\ UNCHANGED sequence

\* item.getNextEventInstance(year, month)
GetNextEventInstance(year, month) ==
    /\ item._index < MaxCalls
    /\ GetEvent("getNextEventInstance", item._index + 1, year, month)
    /\ UNCHANGED sequence

\* lines 319-323 of _getEvent, next being what getNextRecurrenceDate gave
GetEventStep(next) ==
    /\ item' = [item EXCEPT !.recurrence = next.rule]
    /\ IF Truthy(next.date)
       THEN /\ pc' = "_getEvent"
            /\ ret' = ret
            /\ frame' = [frame EXCEPT
                            !.eventStartDate = next.date,
                            !.eventEndDate = occurrenceEnd(item, next.date)]
       ELSE /\ pc' = "EventItem"
            /\ ret' = JSNull
            /\ frame' = NoFrame

\* one turn of the while loop of _getEvent: lines 317-324
GetEventTurn ==
    /\ pc = "_getEvent"
    /\ IF datePeriodIsCurrent(frame.eventStartDate, frame.eventEndDate,
                              call.year, call.month, -1)
       THEN /\ pc' = "EventItem"
            /\ ret' = EventInstance(item, frame.eventStartDate, frame.eventEndDate)
            /\ frame' = NoFrame
            /\ item' = item
       ELSE /\ item.recurrence._index < MaxIndex
            /\ GetEventStep(getNextRecurrenceDate(item.recurrence, frame.eventStartDate))
    /\ UNCHANGED <<recurrence, event, dateFormat, onError, outcome, rule, call,
                   settings, callbacks, passVars, pageVars>>

\* the turn on an item used on its own
GetEventLoop == GetEventTurn /\ UNCHANGED sequence

\* the instance a plain getFirstEventInstance() / getNextEventInstance()
\* returns with the cursor set: an instance, null, or a TypeError
plainInstance(head) ==
    IF head.kind = "date" THEN EventInstance(head.item, head.start, head.end)
    ELSE JSNull

\* lines 956-959 of addEventToCalendar: getFirstEventInstance() has run up to
\* `head` and `first` is what it returned
FirstInstance(head, first) ==
    /\ item' = head.item
    /\ IF head.kind = "threw" \/ first = JSNull
       THEN \* line 310 on a null recurrence, line 957 on a null instance
            /\ pc' = "threw"
            /\ frame' = NoFrame
       ELSE IF first.listingNumberOfDays < 1
       THEN /\ pc' = "returned"
            /\ frame' = [NoFrame EXCEPT !.exit = "not listed"]
       ELSE /\ pc' = "addEventToCalendar"
            /\ frame' = [NoFrame EXCEPT !.eventInstance = first]

FirstInstanceOf(head) == FirstInstance(head, plainInstance(head))

\* calendar.addEventToCalendar(item, highlighter, lister, year, month, day)
\* on a calendar with settings s, up to its while loop: lines 903-959.  It is
\* run on an item as built: getFirstEventInstance() at line 956 sets the
\* cursor to 0 and getRecurrenceDate sets the rule's _index, so that earlier
\* calls on the item leave nothing behind that the function reads
AddEventToCalendar(s, q, highlighter, lister) ==
    /\ pc = "EventItem"
    /\ call.op = "EventItem"
    /\ settings' = s
    /\ call' = [NoCall EXCEPT !.op = "addEventToCalendar", !.year = q.year,
                              !.month = q.month, !.day = q.day,
                              !.lister = lister]
    /\ callbacks' = NoCallbacks
    /\ ret' = Undefined
    /\ IF ~highlighter
       THEN /\ pc' = "returned"
            /\ item' = item
            /\ frame' = [NoFrame EXCEPT !.exit = "no highlighter"]
       ELSE FirstInstanceOf(getEventHead([item EXCEPT !._index = 0]))
    /\ UNCHANGED <<recurrence, event, dateFormat, onError, outcome, rule, passVars, restVars>>

\* the lister of getEventsData with the limit test of line 658 passed one
\* item later
listerResultsPastLimit ==
    IF key = 0 THEN BOOLEAN ELSE {limit = 0 \/ itemsInList <= limit}

\* what a call of the lister may return.  In a getEventsData pass it is the
\* function of lines 657-693: false when the limit is reached, true after
\* adding the item otherwise.  Outside one it is the caller's, which accepts
\* the instance or not
listerResults ==
    IF key = 0 THEN BOOLEAN ELSE {limit = 0 \/ itemsInList < limit}

\* the state after lines 977-1018 when the lister, if called, returned
\* `accepted`: itemsInList is the count of line 691
Listed(accepted, head) ==
    /\ frame' = [frame EXCEPT !.eventInstance = plainInstance(head),
                              !.itemAdded = frame.itemAdded \/ accepted]
    /\ itemsInList' = IF key > 0 /\ accepted THEN itemsInList + 1 ELSE itemsInList

\* lines 977-1018 with the lister called for every instance handled,
\* whatever _needToAddEventToList and itemAdded say
AddEventListingAll(inst, list, days, head) ==
    /\ pc' = "addEventToCalendar"
    /\ item' = head.item
    /\ \E accepted \in (IF call.lister THEN listerResults ELSE {FALSE}) :
          Listed(accepted, head)
    /\ callbacks' = [highlighter |-> callbacks.highlighter + Len(days),
                     lister |-> callbacks.lister + (IF call.lister THEN 1 ELSE 0),
                     listed |-> call.lister, days |-> days, instance |-> inst]

\* lines 977-1018 for the instance inst: `list` says that the lister is
\* called (line 987 calls it only while itemAdded is false), `days` are the
\* highlighter calls and `head` is where getNextEventInstance() gets to
AddEvent(inst, list, days, head) ==
    /\ pc' = "addEventToCalendar"
    /\ item' = head.item
    /\ \E accepted \in (IF list THEN listerResults ELSE {FALSE}) :
          Listed(accepted, head)
    /\ callbacks' = [highlighter |-> callbacks.highlighter + Len(days),
                     lister |-> callbacks.lister + (IF list THEN 1 ELSE 0),
                     listed |-> list, days |-> days, instance |-> inst]

\* one turn of the while loop of addEventToCalendar: lines 960-1019.  The
\* lister is the caller's: it accepts the instance or not
AddEventLoop ==
    LET inst == frame.eventInstance
        q == Query(call.year, call.month, call.day)
    IN  /\ pc = "addEventToCalendar"
        /\ IF inst = JSNull
           THEN /\ pc' = "returned"
                /\ frame' = [frame EXCEPT !.exit = "null"]
                /\ UNCHANGED <<item, callbacks, itemsInList>>
           ELSE IF stopScan(inst, q)
           THEN /\ pc' = "returned"
                /\ frame' = [frame EXCEPT !.exit = "break"]
                /\ UNCHANGED <<item, callbacks, itemsInList>>
           ELSE /\ item._index < MaxIndex
                /\ AddEvent(inst,
                            _eventExistsInAllowedPeriod(settings, inst.startDate,
                                                        inst.endDate)
                            /\ _needToAddEventToList(settings, q, inst, frame.itemAdded,
                                                     call.lister)
                            /\ ~frame.itemAdded,
                            IF _eventExistsInAllowedPeriod(settings, inst.startDate,
                                                           inst.endDate)
                            THEN highlights(settings, q, inst) ELSE <<>>,
                            getEventHead([item EXCEPT !._index = item._index + 1]))
        /\ UNCHANGED <<recurrence, event, dateFormat, onError, outcome, rule,
                       call, ret, settings, data, limit, key, restVars>>

Next ==
    \/ \E raw \in RawRecurrences, withOnError \in BOOLEAN :
          NewEventRecurrence(raw.recurrence, raw.dateFormat, withOnError)
    \/ \E date \in {DateV(a) : a \in Anchors} \cup {JSNull}, index \in -1..(MaxCount + 1) :
          GetRecurrenceDate(date, index)
    \/ \E date \in {DateV(a) : a \in Anchors} \cup {ret} :
          GetNextRecurrenceDate(date)
    \/ \E raw \in RawEvents : NewEventItem(raw, raw.onError)
    \/ \E p \in Periods : GetFirstEventInstance(p[1], p[2])
    \/ \E p \in Periods : GetNextEventInstance(p[1], p[2])
    \/ GetEventLoop
    \/ \E c \in Calendars, highlighter \in BOOLEAN, lister \in BOOLEAN :
          AddEventToCalendar(c[1], Query(c[2][1], c[2][2], c[2][3]), highlighter, lister)
    \/ AddEventLoop
    \/ \E a \in PeriodDates, b \in PeriodDates, q \in PeriodQueries :
          a <= b /\ DatePeriodIsCurrent(DateV(a), DateV(b), Query(q[1], q[2], q[3]))

Spec == Init /\ [][Next]_vars

(***************************************************************************)
(* getEventsData: one pass over the events of the JSON, each built and     *)
(* handed to addEventToCalendar with the two functions of lines 650-693.   *)
(* What the pass writes to the page is left out.                           *)
(***************************************************************************)
\* the characters of the model's strings in the order of their code units
codeUnits == Digits \o UpperCase \o LowerCase
codeUnit(c) == CHOOSE k \in 1..Len(codeUnits) : codeUnits[k] = c

RECURSIVE stringGreater(_, _, _)
\* a > b on strings that are equal before the place i
stringGreater(a, b, i) ==
    IF i > Len(a) THEN FALSE
    ELSE IF i > Len(b) THEN TRUE
    ELSE IF a[i] = b[i] THEN stringGreater(a, b, i + 1)
    ELSE codeUnit(a[i]) > codeUnit(b[i])

\* the comparator of lines 620-628 does not ask for a after b: it gives 1
\* when a.startDate > b.startDate (ascending) or < (descending) and -1
\* otherwise, equal start dates included
inOrder(a, b, ascending) ==
    IF ascending
    THEN ~stringGreater(toLowerCase(a.startDate.s), toLowerCase(b.startDate.s), 1)
    ELSE ~stringGreater(toLowerCase(b.startDate.s), toLowerCase(a.startDate.s), 1)

\* the orders $(data).sort(...) may leave d in: events with equal start
\* dates come in any order
sorted(d, ascending) ==
    {[i \in 1..Len(d) |-> d[g[i]]] :
        g \in {f \in Permutations(1..Len(d)) :
                  \A i, j \in 1..Len(d) :
                      i < j => inOrder(d[f[i]], d[f[j]], ascending)}}

\* the comparator is called once there are two events, and startDate.toLowerCase()
\* is a TypeError on a start date that is not a string
sortThrows(d) == Len(d) >= 2 /\ \E i \in 1..Len(d) : d[i].startDate.t # "string"

\* an event of the JSON of a pass
ListEvent(startDate, r) ==
    RawEvent(Num(7), startDate, Undefined, Undefined, Undefined, Undefined,
             r, Str(S_title), Undefined)

\* the events of the passes: two that start on 2018-12-30, one of them daily
\* MaxCount times, a weekly one without end from 2018-12-01, and one whose
\* start date is a number
ListEvents ==
    {ListEvent(Str(toString(DayNumber(2018, 11, 30))), NoRecurrence("undefined")),
     ListEvent(Str(toString(DayNumber(2018, 11, 30))),
               RawRecurrence(Str(S_day), Num(1), Num(MaxCount))),
     ListEvent(Str(toString(DayNumber(2018, 11, 1))),
               RawRecurrence(Str(S_week), Num(1), Undefined)),
     ListEvent(Num(DayNumber(2018, 11, 30)), NoRecurrence("undefined"))}

\* the JSON of a pass: up to MaxEvents events
DataLists == UNION {[1..n -> ListEvents] : n \in 0..MaxEvents}

\* the year, month and day of the passes: _getEvents always gives a year and
\* a month (lines 767-768)
ListQueries == {<<2018, 11, -1>>, <<2018, 11, 31>>, <<2019, 0, -1>>}

\* the settings of the calendars of the passes
ListSettings ==
    {DefaultSettings,
     [DefaultSettings EXCEPT !.groupEvents = TRUE, !.sortAscending = FALSE]}

\* getEventsData(d, lim, year, month, day) up to its $.each: lines 577-643
GetEventsData(s, d, lim, q) ==
    /\ Idle
    /\ settings' = s
    /\ limit' = lim
    /\ key' = 0
    /\ itemsInList' = 0
    /\ call' = [NoCall EXCEPT !.op = "getEventsData", !.year = q.year,
                              !.month = q.month, !.day = q.day, !.lister = TRUE]
    /\ IF sortThrows(d)
       THEN pc' = "threw" /\ data' = d
       ELSE pc' = "getEventsData" /\ data' \in sorted(d, s.sortAscending)
    /\ UNCHANGED <<recurrence, event, dateFormat, onError, outcome, rule, item,
                   ret, frame, callbacks, restVars>>

\* lines 645-648, c being what new EventItem gave: addEventToCalendar runs up
\* to its while loop
EachEventItem(c) ==
    /\ outcome' = [_error |-> c._error, onErrorCalls |-> c.onErrorCalls,
                   threw |-> c.threw]
    /\ IF c.threw
       THEN /\ pc' = "threw"
            /\ item' = c.obj
            /\ frame' = NoFrame
       ELSE FirstInstanceOf(getEventHead([c.obj EXCEPT !._index = 0]))

\* $.each is at an event, or addEventToCalendar has returned to it
InEach == pc = "getEventsData" \/ (pc = "returned" /\ key > 0)

\* one turn of $.each: lines 644-698 up to the while loop of addEventToCalendar
EachEvent ==
    /\ InEach
    /\ key < Len(data)
    /\ key' = key + 1
    /\ event' = data[key + 1]
    /\ dateFormat' = settings.jsonDateFormat
    /\ onError' = FALSE
    /\ recurrence' = NoRecurrence("undefined")
    /\ EachEventItem(EventItem(data[key + 1], settings.jsonDateFormat, FALSE))
    /\ call' = [call EXCEPT !.op = "addEventToCalendar"]
    /\ callbacks' = NoCallbacks
    /\ ret' = Undefined
    /\ UNCHANGED <<rule, settings, data, limit, itemsInList, restVars>>

\* $.each is over: lines 701-763 write the list to the page
GetEventsDataEnd ==
    /\ InEach
    /\ key = Len(data)
    /\ pc' = "listed"
    /\ UNCHANGED <<recurrence, event, dateFormat, onError, outcome, rule, item,
                   call, ret, frame, settings, callbacks, passVars, restVars>>

ListNext ==
    \/ \E s \in ListSettings, d \in DataLists, lim \in 0..MaxLimit, q \in ListQueries :
          GetEventsData(s, d, lim, Query(q[1], q[2], q[3]))
    \/ EachEvent
    \/ AddEventLoop
    \/ GetEventsDataEnd

ListSpec == Init /\ [][ListNext]_vars

(***************************************************************************)
(* Sequences of getFirstEventInstance / getNextEventInstance calls on one  *)
(* item, what each call returned being kept in `sequence`.                 *)
(***************************************************************************)
\* an event of the sequences, one day long
IterEvent(startDate, r) ==
    [event |-> RawEvent(Num(7), Num(startDate), Undefined, Undefined, Undefined,
                        Undefined, r, Str(S_title), Undefined),
     dateFormat |-> Str(S_timestamp)]

\* the events of the sequences: one that does not recur and four whose rule
\* has an end (a scan on a rule without end returns an instance or never
\* ends): daily MaxCount times from 2018-12-30, every MaxInterval weeks from
\* 2018-12-30 to 2019-01-31, monthly MaxCount times from 2019-01-31 and
\* every MaxInterval days from 2018-12-30 to 2019-01-05
IterEvents ==
    {IterEvent(DayNumber(2018, 11, 30), NoRecurrence("undefined")),
     IterEvent(DayNumber(2018, 11, 30),
               RawRecurrence(Str(S_day), Num(1), Num(MaxCount))),
     IterEvent(DayNumber(2018, 11, 30),
               RawRecurrence(Str(S_week), Num(MaxInterval),
                             DateV(DayNumber(2019, 0, 31)))),
     IterEvent(DayNumber(2019, 0, 31),
               RawRecurrence(Str(S_month), Num(1), Num(MaxCount))),
     IterEvent(DayNumber(2018, 11, 30),
               RawRecurrence(Str(S_day), Num(MaxInterval),
                             DateV(DayNumber(2019, 0, 5))))}

\* the year and month of the calls: none, January 2019 and February 2019
IterPeriods == {<<-1, -1>>, <<2019, 0>>, <<2019, 1>>}

\* the call has returned (pc' is "EventItem") or not yet: what it returned
\* is added to the record `before` of the calls before it
Recorded(before) ==
    sequence' = IF pc' = "EventItem"
                THEN Append(before,
                            [year |-> call'.year, month |-> call'.month,
                             start |-> IF ret' = JSNull THEN JSNull
                                       ELSE ret'.startDate])
                ELSE before

\* item.getFirstEventInstance(year, month), the first call of a sequence
FirstInSequence(year, month) ==
    /\ GetEvent("getFirstEventInstance", 0, year, month)
    /\ Recorded(<<>>)

\* item.getNextEventInstance(year, month), a later call of the sequence
NextInSequence(year, month) ==
    /\ item._index < MaxCalls
    /\ GetEvent("getNextEventInstance", item._index + 1, year, month)
    /\ Recorded(sequence)

\* one turn of the while loop of _getEvent in a call of the sequence
TurnInSequence == GetEventTurn /\ Recorded(sequence)

IterNext ==
    \/ \E raw \in IterEvents : NewEventItem(raw, FALSE)
    \/ \E p \in IterPeriods : FirstInSequence(p[1], p[2])
    \/ \E p \in IterPeriods : NextInSequence(p[1], p[2])
    \/ TurnInSequence

IterSpec == Init /\ [][IterNext]_vars

(***************************************************************************)
(* The plugin on one element: $(el).eventCalendar(options), the click      *)
(* handlers _initialise registers, _getEvents and the responses to its     *)
(* requests.  getEventsData is kept as the data and the query it was       *)
(* called with.                                                            *)
(***************************************************************************)
S_prev == <<"p","r","e","v">>
S_next == <<"n","e","x","t">>

\* the options of the plugin calls: cacheJson, and jsonData left out or given
PageOptions ==
    {[cacheJson |-> c, jsonData |-> j] :
        c \in BOOLEAN, j \in {Str(<<>>), PlainObject}}
\* the days of the month that are clicked
PageDays == {1, 15}

\* the plugin without the test of line 1188
attachedNever == FALSE

\* element.data('eventCalendar') is set: line 1188
attached == page.eventCalendar # 0

\* $(el).eventCalendar(options), lines 1183-1198: new EventCalendar runs
\* _initialise (lines 1097-1172), which sets the settings and registers the
\* click handlers
EventCalendarPlugin(options) ==
    /\ pc = "start"
    /\ page.calls < MaxPluginCalls
    /\ IF attached
       THEN /\ page' = [page EXCEPT !.calls = @ + 1]
            /\ UNCHANGED settings
       ELSE /\ page' = [page EXCEPT !.calls = @ + 1,
                                    !.constructed = @ + 1,
                                    !.eventCalendar = page.constructed + 1,
                                    !.handlers = @ + 1]
            /\ settings' = [DefaultSettings EXCEPT !.cacheJson = options.cacheJson,
                                                   !.jsonData = options.jsonData]
    /\ UNCHANGED <<pc, recurrence, event, dateFormat, onError, outcome, rule, item,
                   call, ret, frame, callbacks, passVars, sequence, dnd, routine>>

\* the test of line 781 with the first load left out: only a calendar that
\* does not cache asks the server
needsRequestUncached(cacheJson, direction) == ~cacheJson

\* the test of line 781: the JSON is asked from the server
needsRequest(cacheJson, direction) == ~cacheJson \/ ~Truthy(direction)

\* _getEvents(limit, year, month, day, direction) once lines 766-769 have
\* made the query q of its arguments: lines 773-793, pg being the page as the
\* handler has left it so far
GetEventsFor(pg, q) ==
    IF Truthy(settings.jsonData)
    THEN /\ settings' = [settings EXCEPT !.cacheJson = TRUE]
         /\ page' = [pg EXCEPT !.query = q, !.eventsJson = -1,
                               !.rendered = [data |-> -1, query |-> q]]
    ELSE /\ settings' = settings
         /\ page' = IF needsRequest(settings.cacheJson, q.direction)
                    THEN [pg EXCEPT !.query = q, !.pending = @ \cup {q},
                                    !.requests = @ + 1]
                    ELSE [pg EXCEPT !.query = q,
                                    !.rendered = [data |-> pg.eventsJson, query |-> q]]

\* _getEvents(limit, year, month, day, direction): lines 765-799
GetEvents(pg, maxLimit, year, month, day, direction) ==
    /\ pc = "start"
    /\ page.handlers > 0
    /\ page.query.n < MaxQueries
    /\ GetEventsFor(pg, [n |-> page.query.n + 1,
                         limit |-> OrDefault(maxLimit, 0),
                         year |-> IF TypeOf(year) = "number" THEN year.n
                                  ELSE getFullYear(settings.currentDate),
                         month |-> IF TypeOf(month) = "number" THEN month.n
                                   ELSE getMonth(settings.currentDate),
                         day |-> IF TypeOf(day) = "number" THEN day.n ELSE -1,
                         direction |-> direction])
    /\ UNCHANGED <<pc, recurrence, event, dateFormat, onError, outcome, rule, item,
                   call, ret, frame, callbacks, passVars, sequence, dnd, routine>>

\* a click on a period selector, lines 1130-1136: _changeCalendarMonth
\* ("current") shows the month of currentDate and _beginSelectDate asks for
\* the first load
ClickPeriodSelector ==
    GetEvents([page EXCEPT !.year = getFullYear(settings.currentDate),
                           !.month = getMonth(settings.currentDate)],
              settings.eventsLimit, Bool(FALSE), Bool(FALSE), Bool(FALSE), Bool(FALSE))

\* the month the calendar shows and the month of currentDate, counted in
\* months
shownMonth == 12 * page.year + page.month
monthOfToday ==
    12 * getFullYear(settings.currentDate) + getMonth(settings.currentDate)

\* a click on an arrow, lines 1044-1063: _changeCalendarMonth(show) shows
\* the month before or after (lines 814-821) and asks for it (line 889)
ClickArrow(show, shift) ==
    /\ page.year >= 0
    /\ shownMonth + shift - monthOfToday \in -MaxShift..MaxShift
    /\ GetEvents([page EXCEPT !.year = (shownMonth + shift) \div 12,
                              !.month = (shownMonth + shift) % 12],
                 settings.eventsLimit, Num((shownMonth + shift) \div 12),
                 Num((shownMonth + shift) % 12), Bool(FALSE), Str(show))

\* a click on a day of the month shown: lines 1113-1120
ClickDay(day) ==
    /\ page.year >= 0
    /\ GetEvents(page, Bool(FALSE), Num(page.year), Num(page.month), Num(day),
                 Str(S_day))

\* a click on the title of the month shown: lines 1122-1128
ClickMonthTitle ==
    /\ page.year >= 0
    /\ GetEvents(page, settings.eventsLimit, Num(page.year), Num(page.month),
                 Bool(FALSE), Str(S_month))

\* the response to the request q arrives: the callback of lines 783-786
Response(q) ==
    /\ page' = [page EXCEPT !.pending = @ \ {q}, !.eventsJson = q.n,
                            !.rendered = [data |-> q.n, query |-> q]]
    /\ UNCHANGED <<pc, recurrence, event, dateFormat, onError, outcome, rule, item,
                   call, ret, frame, settings, callbacks, passVars, sequence, dnd,
                   routine>>

\* the request q fails: the callback of lines 786-788 shows the error
ResponseFails(q) ==
    /\ page' = [page EXCEPT !.pending = @ \ {q}, !.failed = TRUE]
    /\ UNCHANGED <<pc, recurrence, event, dateFormat, onError, outcome, rule, item,
                   call, ret, frame, settings, callbacks, passVars, sequence, dnd,
                   routine>>

PageNext ==
    \/ \E options \in PageOptions : EventCalendarPlugin(options)
    \/ ClickPeriodSelector
    \/ ClickArrow(S_prev, -1)
    \/ ClickArrow(S_next, 1)
    \/ \E day \in PageDays : ClickDay(day)
    \/ ClickMonthTitle
    \/ \E q \in page.pending : Response(q)
    \/ \E q \in page.pending : ResponseFails(q)

PageSpec == Init /\ [][PageNext]_vars

(***************************************************************************)
(* The drag-and-drop helper of src/js/dragndrop.js: one dnd object on the  *)
(* elements of its selector, the mouse events on them and on the document, *)
(* and the timers mouseup sets.  The window is not scrolled.               *)
(***************************************************************************)
\* the elements of the selector
DndElements == {1, 2}
\* clientX and clientY of the mouse events
ClientXs == {5, 15, 25}
ClientYs == {5, 25, 45}

\* $element.offset() of the elements
Offset(e) == [left |-> 100 * e, top |-> 50]

\* setEventPosition(x, y), lines 4-9
setEventPosition(x, y) == [left |-> x - 5, top |-> y - 5]

\* mousedown on the element e, lines 24-54: css(css) at line 51 puts the
\* element at its offset, whatever setEventPosition did at line 48
MouseDown(e, x, y) ==
    /\ pc = "start"
    /\ dnd.pressed = 0
    /\ dnd' = [dnd EXCEPT !.pressed = e, !.movedEvent = e,
                          !.dndMovedElement = e,
                          !.left = Offset(e).left, !.top = Offset(e).top]
    /\ UNCHANGED <<pc, recurrence, event, dateFormat, onError, outcome, rule, item,
                   call, ret, frame, settings, callbacks, passVars, sequence, page,
                   routine>>

\* mousedown outside the elements: no handler of the helper runs
MouseDownElsewhere ==
    /\ pc = "start"
    /\ dnd.pressed = 0
    /\ dnd' = [dnd EXCEPT !.pressed = -1]
    /\ UNCHANGED <<pc, recurrence, event, dateFormat, onError, outcome, rule, item,
                   call, ret, frame, settings, callbacks, passVars, sequence, page,
                   routine>>

\* mouseup on the document, lines 60-70: the element goes back to its old css
\* and a timer is set
MouseUp ==
    /\ pc = "start"
    /\ dnd.pressed # 0
    /\ IF dnd.movedEvent > 0
       THEN /\ dnd.timers < MaxTimers
            /\ dnd' = [dnd EXCEPT !.pressed = 0, !.movedEvent = 0,
                                  !.timers = @ + 1, !.left = 0, !.top = 0]
       ELSE dnd' = [dnd EXCEPT !.pressed = 0]
    /\ UNCHANGED <<pc, recurrence, event, dateFormat, onError, outcome, rule, item,
                   call, ret, frame, settings, callbacks, passVars, sequence, page,
                   routine>>

\* mousemove on the document, lines 71-76
MouseMove(x, y) ==
    /\ pc = "start"
    /\ dnd' = IF dnd.movedEvent > 0
              THEN [dnd EXCEPT !.left = setEventPosition(x, y).left,
                               !.top = setEventPosition(x, y).top]
              ELSE dnd
    /\ UNCHANGED <<pc, recurrence, event, dateFormat, onError, outcome, rule, item,
                   call, ret, frame, settings, callbacks, passVars, sequence, page,
                   routine>>

\* a timer set at line 66 fires, 10 ms after its mouseup: line 67
TimerFires ==
    /\ pc = "start"
    /\ dnd.timers > 0
    /\ dnd' = [dnd EXCEPT !.timers = @ - 1, !.dndMovedElement = 0]
    /\ UNCHANGED <<pc, recurrence, event, dateFormat, onError, outcome, rule, item,
                   call, ret, frame, settings, callbacks, passVars, sequence, page,
                   routine>>

DndNext ==
    \/ \E e \in DndElements, x \in ClientXs, y \in ClientYs : MouseDown(e, x, y)
    \/ MouseDownElsewhere
    \/ MouseUp
    \/ \E x \in ClientXs, y \in ClientYs : MouseMove(x, y)
    \/ TimerFires

DndSpec == Init /\ [][DndNext]_vars

(***************************************************************************)
(* The booking slots of getEventsData, lines 713-747: the loop over the    *)
(* day shown, given the instances the lister pushed on eventsInRoutine at  *)
(* line 684.  Times are minutes from displayDate, the midnight of the day. *)
(***************************************************************************)
\* if (!period) period = 15: _getEvents calls getEventsData without period
period == 15

\* [startDate, endDate] of the instances listed
RoutineEvents == {<<0, 470>>, <<480, 540>>, <<490, 500>>, <<600, 600>>, <<1230, 1300>>}
RoutineLists ==
    UNION {[1..n -> RoutineEvents] : n \in 0..MaxRoutine}

RECURSIVE IndexOf(_, _, _)
\* the place of the first c in s from the place i on, Len(s) + 1 if there is
\* none
IndexOf(s, c, i) ==
    IF i > Len(s) \/ s[i] = c THEN i ELSE IndexOf(s, c, i + 1)

\* new Date(y, m, d, time.split(':')[0], time.split(':')[1], 0) in minutes
\* from the midnight of the day: lines 715-718
timeOfDay(time) ==
    60 * DecimalValue(time.s, 1, IndexOf(time.s, ":", 1) - 1)
        + DecimalValue(time.s, IndexOf(time.s, ":", 1) + 1, Len(time.s))

\* the three tests of lines 729-740 on one instance
intersects(curEvent, t, datePeriodNext) ==
    \/ curEvent[1] >= t /\ curEvent[1] < datePeriodNext
    \/ curEvent[2] >= t /\ curEvent[2] < datePeriodNext
    \/ curEvent[1] < t /\ curEvent[2] > t

\* isIntersectPeriod after the loop of lines 727-741
isIntersectPeriod(events, t) ==
    \E i \in 1..Len(events) : intersects(events[i], t, t + period)

\* getEventsData reaches line 713 with displayDate set (a query with a
\* direction) and the instances listed
ShowRoutine(events) ==
    /\ pc = "start"
    /\ ~routine.displayed
    /\ routine' = [NoRoutine EXCEPT !.displayed = TRUE, !.eventsInRoutine = events]
    /\ UNCHANGED <<pc, recurrence, event, dateFormat, onError, outcome, rule, item,
                   call, ret, frame, settings, callbacks, passVars, sequence, page,
                   dnd>>

\* one turn of the loop of lines 720-747
RoutineTurn ==
    /\ pc = "start"
    /\ routine.displayed
    /\ routine.dayRoutineI < 1440
    /\ routine' =
          [routine EXCEPT
             !.dayRoutineI = @ + period,
             !.datePeriod = @ + period,
             !.list =
                IF \/ routine.datePeriod + period < timeOfDay(settings.startTime)
                   \/ routine.datePeriod + period > timeOfDay(settings.endTime)
                THEN @
                ELSE Append(@, [t |-> routine.datePeriod + period,
                                closed |-> isIntersectPeriod(routine.eventsInRoutine,
                                                             routine.datePeriod + period)])]
    /\ UNCHANGED <<pc, recurrence, event, dateFormat, onError, outcome, rule, item,
                   call, ret, frame, settings, callbacks, passVars, sequence, page,
                   dnd>>

RoutineNext ==
    \/ \E events \in RoutineLists : ShowRoutine(events)
    \/ RoutineTurn

RoutineSpec == Init /\ [][RoutineNext]_vars

(***************************************************************************)
(* The properties.                                                         *)
(***************************************************************************)
\* the last call was made with no year and no month constraint
Unconstrained == call.year = -1 /\ call.month = -1

\* the rule r passed validation with a count of at least one as its end
Counted(r) ==
    r # JSNull /\ r.type \in RecurrenceTypes /\ r.end.t = "number" /\ r.end.n >= 1

\* the rule r passed validation with a date as its end
Dated(r) == r # JSNull /\ r.type \in RecurrenceTypes /\ IsDate(r.end)

\* C1: building an EventItem from any raw record and then running
\* addEventToCalendar on it never throws, and a run that found no instance
\* has made no highlighter call and no lister call.
C1_MalformedEventNeverThrows ==
    /\ call.op \in {"EventItem", "addEventToCalendar"} => pc # "threw"
    /\ (pc = "returned" /\ callbacks.instance = JSNull) =>
          callbacks.highlighter = 0 /\ callbacks.lister = 0

\* C2: the occurrence loop of addEventToCalendar on a well-formed event gets
\* to a null instance or to the break: it is never still running, with an
\* instance to handle and no break, once MaxIndex occurrences are handled.
C2_AddEventToCalendarTerminates ==
    (pc = "addEventToCalendar" /\ item._index >= MaxIndex) =>
        \/ frame.eventInstance = JSNull
        \/ stopScan(frame.eventInstance, Query(call.year, call.month, call.day))

\* the occurrence j places after the one the cursor of the item is at
laterInstance(j) == plainInstance(getEventHead([item EXCEPT !._index = item._index + j]))

\* addEventToCalendar would call the highlighter or the lister for inst
emits(inst) ==
    /\ _eventExistsInAllowedPeriod(settings, inst.startDate, inst.endDate)
    /\ \/ highlights(settings, Query(call.year, call.month, call.day), inst) # <<>>
       \/ _needToAddEventToList(settings, Query(call.year, call.month, call.day),
                                inst, frame.itemAdded, call.lister)

\* C3: when the scan of an event stops at the break of line 972, none of the
\* occurrences after the one it stopped at would have been highlighted or
\* listed had the loop gone on.
C3_BreakSuppressesNothing ==
    (pc = "returned" /\ frame.exit = "break") =>
        \A j \in 1..MaxLookahead :
            laterInstance(j) = JSNull \/ ~emits(laterInstance(j))

\* C4: an event whose raw listingNumberOfDays is 0 is never passed to the
\* lister by addEventToCalendar.
C4_ZeroListingDaysNeverListed ==
    event.listingNumberOfDays = Num(0) => callbacks.lister = 0

\* C5: with a count N >= 1 as the end of a valid rule, getRecurrenceDate(anchor, k)
\* is a date for every 0 <= k <= N - 1 and null from k = N on, and
\* getFirstEventInstance() followed by getNextEventInstance() calls gives an
\* instance at the cursors 0 .. N - 1 and null at the cursor N and after.
C5_CountedSeriesHasNOccurrences ==
    /\ (pc = "EventRecurrence" /\ call.op = "getRecurrenceDate" /\ Counted(rule)
        /\ IsDate(call.date) /\ call.index >= 0) =>
            /\ IsDate(ret) <=> call.index <= rule.end.n - 1
            /\ ret = JSNull <=> call.index >= rule.end.n
    /\ (pc = "EventItem" /\ call.op \in {"getFirstEventInstance", "getNextEventInstance"}
        /\ Unconstrained /\ Counted(item.recurrence) /\ IsDate(item.startDate)) =>
            /\ ret # JSNull <=> item._index <= item.recurrence.end.n - 1
            /\ ret = JSNull <=> item._index >= item.recurrence.end.n

\* C5: getRecurrenceDate(anchor, N) has returned null on a rule that ends
\* after N occurrences
C5_Witness ==
    /\ pc = "EventRecurrence" /\ call.op = "getRecurrenceDate"
    /\ Counted(rule) /\ rule.end.n = MaxCount
    /\ IsDate(call.date) /\ call.index = rule.end.n
    /\ ret = JSNull

\* C6 as the specification words it: with a date E as the end of a valid rule,
\* every date getRecurrenceDate(anchor, k) returns, for any k >= 0 and any
\* anchor, is on or before E.
C6_EveryOccurrenceOnOrBeforeEnd ==
    (pc = "EventRecurrence" /\ call.op = "getRecurrenceDate" /\ Dated(rule)
     /\ IsDate(call.date) /\ call.index >= 0 /\ IsDate(ret)) =>
        ret.n <= rule.end.n

\* C6, amended: with a date E as the end of a valid rule, every date
\* getRecurrenceDate(anchor, k) returns is on or before E when k >= 1 or the
\* anchor is on or before E (k = 0 returns the anchor as it is), and every
\* date getNextRecurrenceDate returns is on or before E.
C6_StepsStayOnOrBeforeEnd ==
    /\ (pc = "EventRecurrence" /\ call.op = "getRecurrenceDate" /\ Dated(rule)
        /\ IsDate(call.date) /\ IsDate(ret)
        /\ (call.index >= 1 \/ call.date.n <= rule.end.n)) =>
            ret.n <= rule.end.n
    /\ (pc = "EventRecurrence" /\ call.op = "getRecurrenceDate" /\ Dated(rule)
        /\ IsDate(call.date) /\ call.index = 0) =>
            ret = call.date
    /\ (pc = "EventRecurrence" /\ call.op = "getNextRecurrenceDate" /\ Dated(rule)
        /\ IsDate(call.date) /\ IsDate(ret)) =>
            ret.n <= rule.end.n

\* C6: a step of getRecurrenceDate has landed on the end date itself
C6_Witness ==
    /\ pc = "EventRecurrence" /\ call.op = "getRecurrenceDate" /\ Dated(rule)
    /\ IsDate(call.date) /\ call.index >= 1
    /\ IsDate(ret) /\ ret.n = rule.end.n

\* C7: building an EventRecurrence never throws, and a raw rule whose numeric
\* end is zero or negative leaves the rule in the failure state (type 'none',
\* interval 0, end 'none') with the error callback, when given, invoked.
C7_InvalidRecurrenceFails ==
    call.op = "EventRecurrence" =>
        /\ pc # "threw"
        /\ (recurrence.t = "object" /\ recurrence.end.t = "number"
            /\ recurrence.end.n <= 0) =>
                /\ rule = RecurrenceNone
                /\ outcome._error
                /\ onError => outcome.onErrorCalls >= 1

\* C8: building an EventItem from a record with neither startDate nor date
\* raises no exception, leaves every field at its empty or default value and
\* invokes the error callback when one is given.
C8_MissingStartDateFails ==
    (call.op = "EventItem" /\ event.t = "object"
     /\ ~Truthy(event.startDate) /\ ~Truthy(event.date)) =>
        /\ pc # "threw"
        /\ item = EventNone
        /\ onError => outcome.onErrorCalls >= 1

\* C9: on an event with a valid start date whose rule has the type 'none',
\* getFirstEventInstance() returns an instance dated at the anchor and every
\* getNextEventInstance call returns null.
C9_NonRecurringEventHasOneInstance ==
    (pc = "EventItem" /\ item.recurrence # JSNull /\ item.recurrence.type = S_none
     /\ IsDate(item.startDate)) =>
        /\ (call.op = "getFirstEventInstance" /\ Unconstrained) =>
              /\ ret # JSNull
              /\ ret.startDate = item.startDate
              /\ ret.endDate = item.endDate
              /\ item._index = 0
        /\ call.op = "getNextEventInstance" => ret = JSNull /\ item._index >= 1

\* C9: getNextEventInstance has returned null on an event whose invalid
\* recurrence type forced the rule to 'none'
C9_Witness ==
    /\ pc = "EventItem" /\ call.op = "getNextEventInstance"
    /\ event.recurrence.type = Str(S_bogus)
    /\ item.recurrence # JSNull /\ item.recurrence.type = S_none
    /\ IsDate(item.startDate)
    /\ ret = JSNull

\* C10: the advance loop of _getEvent gets to a matching occurrence or to
\* exhaustion: it is never still running, the occurrence at hand not in the
\* constrained period, once the rule has stepped MaxIndex times.
C10_GetEventReturns ==
    (pc = "_getEvent" /\ item.recurrence._index >= MaxIndex) =>
        datePeriodIsCurrent(frame.eventStartDate, frame.eventEndDate,
                            call.year, call.month, -1)

\* The cap MaxIndex stops no loop that would have ended: a loop still running
\* at the cap is on a rule with no end, and in addEventToCalendar the query
\* then has no year, so that the test of line 972 compares months only.
CapStopsOnlyEndlessScans ==
    /\ (pc = "addEventToCalendar" /\ ~C2_AddEventToCalendarTerminates) =>
          item.recurrence.end = Str(S_none) /\ call.year = -1
    /\ (pc = "_getEvent" /\ ~C10_GetEventReturns) =>
          item.recurrence.end = Str(S_none)


\* the query of the last addEventToCalendar call
lastQuery == Query(call.year, call.month, call.day)

\* the span [startDate, endDate] of inst and the allowed range
\* [settings.startDate, settings.endDate] have a day in common
spanInAllowedRange(inst) ==
    inst.startDate.n <= settings.endDate.n /\ inst.endDate.n >= settings.startDate.n

\* C11: an instance addEventToCalendar has handled got its highlighter calls
\* when its span has a day in common with the allowed range, a span that
\* starts before the range and ends after it included, and neither a
\* highlighter nor a lister call when its span has none.
C11_HandledWhenSpanMeetsAllowedRange ==
    (call.op = "addEventToCalendar" /\ callbacks.instance # JSNull) =>
        IF spanInAllowedRange(callbacks.instance)
        THEN callbacks.days = highlights(settings, lastQuery, callbacks.instance)
        ELSE callbacks.days = <<>> /\ ~callbacks.listed


\* C12: with groupEvents enabled, once the lister has accepted an instance
\* within one addEventToCalendar call it is not called again in that call,
\* and the instances handled after that still get their highlighter calls.
C12_GroupedEventListedOnce ==
    [][(pc = "addEventToCalendar" /\ settings.groupEvents /\ frame.itemAdded) =>
          /\ callbacks'.lister = callbacks.lister
          /\ frame'.itemAdded
          /\ (pc' = "addEventToCalendar"
               /\ _eventExistsInAllowedPeriod(settings, frame.eventInstance.startDate,
                                              frame.eventInstance.endDate)) =>
                 /\ callbacks'.days = highlights(settings, lastQuery, frame.eventInstance)
                 /\ callbacks'.highlighter = callbacks.highlighter + Len(callbacks'.days)]_vars

\* C12: on a calendar that groups events an instance that was due for the
\* list has been highlighted and not listed, an earlier one being accepted
C12_Witness ==
    /\ pc = "addEventToCalendar" /\ settings.groupEvents /\ call.lister
    /\ frame.itemAdded /\ callbacks.lister = 1
    /\ callbacks.instance # JSNull /\ ~callbacks.listed
    /\ callbacks.days # <<>>
    /\ _needToAddEventToList(settings, lastQuery, callbacks.instance, FALSE, TRUE)


\* the date d lies in a month after the requested year and month
monthAfterQuery(d) ==
    \/ getFullYear(d) > call.year
    \/ getFullYear(d) = call.year /\ getMonth(d) > call.month

\* the item is a recurring event whose first occurrence and whose listing
\* start lie in a month after the year and month addEventToCalendar was
\* called with, a highlighter being given
futureRecurringEvent ==
    /\ call.op = "addEventToCalendar" /\ pc \in {"addEventToCalendar", "returned"}
    /\ frame.exit # "no highlighter"
    /\ call.year >= 0 /\ call.month >= 0
    /\ IsDate(item.startDate)
    /\ item.recurrence # JSNull /\ item.recurrence.type \in RecurrenceTypes
    /\ monthAfterQuery(item.startDate)
    /\ monthAfterQuery(DateV(item.startDate.n + item.listingStartOffset))

\* C13: for a recurring event whose first occurrence and listing start lie in
\* a month after the requested year and month, addEventToCalendar calls the
\* highlighter and the lister zero times and looks at one instance only: the
\* cursor stays at 0, getNextEventInstance is not called, and the call ends
\* at the break of line 972 or at the return of line 958.
C13_FutureEventScannedOnce ==
    futureRecurringEvent =>
        /\ callbacks.highlighter = 0 /\ callbacks.lister = 0
        /\ callbacks.instance = JSNull
        /\ item._index = 0
        /\ pc = "returned" => frame.exit \in {"break", "not listed"}

\* C13: the scan of an endless recurring event that starts after the
\* requested month has ended at the break with the cursor at 0
C13_Witness ==
    /\ futureRecurringEvent
    /\ pc = "returned" /\ frame.exit = "break"
    /\ item.recurrence.end = Str(S_none)
    /\ item._index = 0 /\ callbacks.highlighter = 0 /\ callbacks.lister = 0


\* the days of the span of inst that are to be highlighted: those of the
\* requested year and month (-1 for any) and, on a calendar that takes
\* partial events, of the allowed range
daysToHighlight(inst) ==
    {n \in inst.startDate.n .. inst.endDate.n :
        /\ call.year = -1 \/ getFullYear(DateV(n)) = call.year
        /\ call.month = -1 \/ getMonth(DateV(n)) = call.month
        /\ settings.allowPartialEvents =>
              n >= settings.startDate.n /\ n <= settings.endDate.n}

\* addEventToCalendar has handled an instance of the allowed period on a
\* calendar that highlights the event days and not the listing days
eventDaysHighlighted ==
    /\ call.op = "addEventToCalendar" /\ callbacks.instance # JSNull
    /\ settings.highlightEventDays /\ ~settings.highlightListingDays
    /\ _eventExistsInAllowedPeriod(settings, callbacks.instance.startDate,
                                   callbacks.instance.endDate)

\* C14: with highlightEventDays enabled and highlightListingDays disabled,
\* the highlighter calls made for a handled instance are one call for each
\* day of its span that matches the requested year and month (and lies in
\* the allowed range when allowPartialEvents is true), with the day of the
\* month as argument, and no other call.
C14_EachEventDayHighlightedOnce ==
    eventDaysHighlighted =>
        /\ Len(callbacks.days) = Cardinality(daysToHighlight(callbacks.instance))
        /\ \A n \in daysToHighlight(callbacks.instance) :
              \E i \in 1..Len(callbacks.days) : callbacks.days[i] = getDate(DateV(n))
        /\ \A i \in 1..Len(callbacks.days) :
              \E n \in daysToHighlight(callbacks.instance) :
                  callbacks.days[i] = getDate(DateV(n))

\* C14: of a two-day instance on a calendar that takes partial events and
\* allows one day only, the allowed day alone has been highlighted
C14_Witness ==
    /\ eventDaysHighlighted /\ settings.allowPartialEvents
    /\ callbacks.instance.endDate.n = callbacks.instance.startDate.n + 1
    /\ callbacks.days = <<getDate(callbacks.instance.endDate)>>


\* the last getFirstEventInstance / getNextEventInstance call has returned
\* an instance
instanceReturned ==
    /\ pc = "EventItem"
    /\ call.op \in {"getFirstEventInstance", "getNextEventInstance"}
    /\ ret # JSNull /\ ret # Undefined
    /\ IsDate(item.startDate) /\ IsDate(item.endDate)

\* C15: an instance returned by getFirstEventInstance or getNextEventInstance,
\* with or without a year and month constraint, spans as many days as the
\* event it comes from: endDate - startDate of the instance equals
\* endDate - startDate of the event.
C15_InstanceKeepsDaySpan ==
    instanceReturned =>
        /\ IsDate(ret.startDate) /\ IsDate(ret.endDate)
        /\ ret.endDate.n - ret.startDate.n = item.endDate.n - item.startDate.n

\* C15: a later occurrence of a three-day event has been returned under a
\* year and month constraint
C15_Witness ==
    /\ instanceReturned /\ call.op = "getNextEventInstance"
    /\ call.year >= 0 /\ call.month >= 0
    /\ item.endDate.n = item.startDate.n + 2
    /\ ret.startDate.n > item.startDate.n


\* C16: in a getEventsData pass with a limit above 0 the items accepted never
\* exceed the limit, a lister call made once the limit is reached returns
\* false and adds nothing, and every other lister call, each one when the
\* limit is 0, returns true and adds an item.
C16_ListStopsAtLimit ==
    /\ [](limit > 0 => itemsInList <= limit)
    /\ [][(key > 0 /\ callbacks'.lister = callbacks.lister + 1) =>
              IF limit > 0 /\ itemsInList >= limit
              THEN itemsInList' = itemsInList /\ ~frame'.itemAdded
              ELSE itemsInList' = itemsInList + 1 /\ frame'.itemAdded]_vars

\* C16: the lister has turned down an instance of the second or third event
\* of a pass, the limit being reached
C16_Witness ==
    /\ key >= 2 /\ limit > 0 /\ itemsInList = limit
    /\ callbacks.listed /\ ~frame.itemAdded


RECURSIVE nextTimes(_, _, _)
RECURSIVE nextAgain(_, _)
\* getNextRecurrenceDate applied k times from the date d on the rule r: null
\* once a step gives null, the steps after it not taken
nextTimes(r, d, k) ==
    IF k = 0 THEN [date |-> d, rule |-> r]
    ELSE nextAgain(getNextRecurrenceDate(r, d), k)
\* the k - 1 steps after the step that gave `next`
nextAgain(next, k) ==
    IF next.date = JSNull THEN [date |-> JSNull, rule |-> next.rule]
    ELSE nextTimes(next.rule, next.date, k - 1)

\* getRecurrenceDate(date, index) has returned, a date and an index of 0 or
\* more being given
recurrenceDateReturned ==
    /\ pc = "EventRecurrence" /\ call.op = "getRecurrenceDate"
    /\ IsDate(call.date) /\ call.index >= 0

\* C17: getRecurrenceDate(anchor, index) returns what index applications of
\* getNextRecurrenceDate give from the anchor on the rule with its _index at
\* 0: the anchor itself for index 0, on every rule, and null once a step
\* gives null, the rule's _index then being the number of the steps that
\* gave a date.
C17_RecurrenceDateIsIteratedNext ==
    recurrenceDateReturned =>
        /\ ret = nextTimes([rule EXCEPT !._index = 0], call.date, call.index).date
        /\ call.index = 0 => ret = call.date
        /\ rule._index <= call.index
        /\ ret = JSNull =>
              /\ rule._index < call.index
              /\ nextTimes([rule EXCEPT !._index = 0], call.date, rule._index).date # JSNull
              /\ nextTimes([rule EXCEPT !._index = 0], call.date, rule._index + 1).date = JSNull

\* C17: getRecurrenceDate(anchor, MaxCount + 1) has returned null on a rule
\* that ends after two occurrences, one step having given a date
C17_Witness ==
    /\ recurrenceDateReturned /\ Counted(rule) /\ rule.end.n = 2
    /\ call.index = MaxCount + 1
    /\ ret = JSNull /\ rule._index = 1


\* the date `interval` units of the type of the rule r after the date d: days,
\* weeks of seven days, months and years of twelve months
advancedByInterval(r, d) ==
    CASE r.type = S_day -> DateV(d.n + r.interval)
      [] r.type = S_week -> DateV(d.n + 7 * r.interval)
      [] r.type = S_month -> addMonths(d, r.interval)
      [] r.type = S_year -> addMonths(d, 12 * r.interval)

\* the end of the rule r rules out the date `advanced` reached with the
\* _index at index: a date end before it, or a count end that index has reached
endsBefore(r, advanced, index) ==
    \/ IsDate(r.end) /\ advanced.n > r.end.n
    \/ r.end.t = "number" /\ index >= r.end.n

\* C18: getNextRecurrenceDate(d) on a rule of type day, week, month or year
\* adds one to the rule's _index and returns d advanced by `interval` units
\* of the type, or null when the end is a date and the advanced date is
\* after it (a date equal to the end is returned) or the end is a count and
\* the new _index has reached it; on a rule of type 'none' it returns null
\* and leaves the rule as it is.
C18_NextRecurrenceDateAdvancesByInterval ==
    [][(pc = "EventRecurrence" /\ call'.op = "getNextRecurrenceDate"
        /\ IsDate(call'.date)) =>
          IF rule.type \in RecurrenceTypes
          THEN /\ rule' = [rule EXCEPT !._index = rule._index + 1]
               /\ ret' = IF endsBefore(rule, advancedByInterval(rule, call'.date),
                                       rule._index + 1)
                         THEN JSNull
                         ELSE advancedByInterval(rule, call'.date)
          ELSE /\ rule.type = S_none
               /\ rule' = rule
               /\ ret' = JSNull]_vars

\* C18: a monthly step from the last day of a month has returned the end
\* date of the rule itself
C18_Witness ==
    /\ pc = "EventRecurrence" /\ call.op = "getNextRecurrenceDate"
    /\ Dated(rule) /\ rule.type = S_month /\ rule._index >= 1
    /\ IsDate(call.date) /\ getDate(call.date) = 31
    /\ IsDate(ret) /\ ret.n = rule.end.n


\* the day new Date(year, month, day) names, as line 909 builds it: the day
\* `day - 1` days after the first of the month
requestedDay == DayNumber(call.year, call.month, 1) + call.day - 1

\* the months since the year 0 of the date d
monthNumber(d) == 12 * getFullYear(d) + getMonth(d)

\* datePeriodIsCurrent has returned TRUE exactly when the requested day is
\* in the period, or the requested month when no day is given
periodTestIsExact ==
    IF call.day >= 0
    THEN ret = Bool(frame.eventStartDate.n <= requestedDay
                    /\ requestedDay <= frame.eventEndDate.n)
    ELSE ret = Bool(monthNumber(frame.eventStartDate) <= 12 * call.year + call.month
                    /\ 12 * call.year + call.month <= monthNumber(frame.eventEndDate))

\* C19 as the specification words it: with year, month and day all >= 0
\* datePeriodIsCurrent(start, end, year, month, day) is true exactly when
\* the date (year, month, day) lies in [start, end], and with year and month
\* alone exactly when the month lies between the months of start and end.
C19_PeriodTestIsExactFromDayZero ==
    (pc = "datePeriodIsCurrent" /\ call.year >= 0 /\ call.month >= 0) =>
        periodTestIsExact

\* C19, amended: the same for the days of the calendar, the day being from 1
\* to the number of days of the month and the month from 0 to 11, no day
\* being given included; it is true for start = end = the requested date.
C19_PeriodTestIsExactOnCalendarDays ==
    (pc = "datePeriodIsCurrent" /\ call.year >= 0
     /\ call.month \in 0..11
     /\ (call.day < 0 \/ call.day \in 1..getDaysInMonth(call.year, call.month))) =>
        /\ periodTestIsExact
        /\ (call.day >= 1 /\ frame.eventStartDate.n = requestedDay
             /\ frame.eventEndDate.n = requestedDay) => ret = Bool(TRUE)

\* C19: the test has held for a period of one day and that day requested
C19_Witness ==
    /\ pc = "datePeriodIsCurrent" /\ call.year >= 0 /\ call.month >= 0
    /\ call.day >= 1
    /\ frame.eventStartDate.n = requestedDay /\ frame.eventEndDate.n = requestedDay
    /\ ret = Bool(TRUE)


\* the instance inst is current: the requested period meets its span
instanceIsCurrent(inst) ==
    datePeriodIsCurrent(inst.startDate, inst.endDate, call.year, call.month, call.day)

\* the requested period meets the listing window of inst, the
\* listingNumberOfDays days from startDate + listingStartOffset on
listingWindowIsCurrent(inst) ==
    datePeriodIsCurrent(DateV(inst.startDate.n + inst.listingStartOffset),
                        DateV(inst.startDate.n + inst.listingStartOffset
                                + inst.listingNumberOfDays - 1),
                        call.year, call.month, call.day)

\* C20: the lister is called for an instance only if the instance is current
\* or its listing window satisfies datePeriodIsCurrent for the requested
\* year, month and day.
C20_ListedOnlyWhenCurrentOrInListingWindow ==
    (call.op = "addEventToCalendar" /\ callbacks.listed) =>
        \/ instanceIsCurrent(callbacks.instance)
        \/ listingWindowIsCurrent(callbacks.instance)

\* C20: an instance that is not current has been listed for a day of its
\* listing window
C20_Witness ==
    /\ call.op = "addEventToCalendar" /\ callbacks.listed
    /\ call.day >= 1
    /\ ~instanceIsCurrent(callbacks.instance)
    /\ listingWindowIsCurrent(callbacks.instance)

\* the item without its cursor and without the _index of its rule: the fields
\* the constructor set
fixedFields(it) ==
    [it EXCEPT !._index = 0,
               !.recurrence = IF @ = JSNull THEN JSNull ELSE [@ EXCEPT !._index = 0]]

\* C21: every step of getFirstEventInstance / getNextEventInstance and of an
\* addEventToCalendar run leaves the fields of the EventItem as the
\* constructor set them (startDate, endDate, listingStartOffset,
\* listingNumberOfDays, the display fields, and the type, interval and end of
\* its rule): only the cursor and the rule's _index change.  The instance
\* handed to the callbacks in a turn of the loop is the one _getEvent
\* returned, with its startDate and endDate as they were, and it stays so
\* until the next turn hands the next one
C21_IterationChangesOnlyTheCursor ==
    [][(pc \in {"EventItem", "_getEvent", "addEventToCalendar"}) =>
          /\ fixedFields(item') = fixedFields(item)
          /\ (pc = "addEventToCalendar" =>
                 callbacks'.instance = (IF pc' = "addEventToCalendar"
                                        THEN frame.eventInstance
                                        ELSE callbacks.instance))]_vars

\* an addEventToCalendar run over a recurring event has ended past its last
\* occurrence: the cursor and the rule's _index have moved, and the last
\* instance handed to the callbacks starts later than the item
C21_Witness ==
    /\ pc = "returned"
    /\ frame.exit = "null"
    /\ item._index >= 2
    /\ item.recurrence._index >= 1
    /\ callbacks.highlighter >= 1
    /\ callbacks.instance # JSNull
    /\ callbacks.instance.startDate # item.startDate

\* C24: with groupEvents disabled, every instance a turn of the loop of
\* addEventToCalendar handles is handed to the lister when it passes the
\* listing conditions (it lies in the allowed period, it or its listing
\* window is current, and the partial-event rule admits it), instances that
\* come after one the lister accepted included.
C24_EveryListableInstanceListed ==
    [][(pc = "addEventToCalendar" /\ pc' = "addEventToCalendar"
        /\ ~settings.groupEvents
        /\ _eventExistsInAllowedPeriod(settings, frame.eventInstance.startDate,
                                       frame.eventInstance.endDate)
        /\ _needToAddEventToList(settings, lastQuery, frame.eventInstance, FALSE,
                                 call.lister)) =>
          callbacks'.lister = callbacks.lister + 1]_vars

\* a plain getFirstEventInstance() / getNextEventInstance() has returned an
\* instance of an event whose rule recurs
recurringInstanceReturned ==
    /\ instanceReturned
    /\ Unconstrained
    /\ item.recurrence # JSNull
    /\ item.recurrence.type \in RecurrenceTypes

\* the anchor advanced by k * interval units at once
anchorAdvanced(k) ==
    advancedByInterval([item.recurrence EXCEPT !.interval = k * @], item.startDate)

\* the anchor after k steps of getNextRecurrenceDate
stepsFromAnchor(k) ==
    nextTimes([item.recurrence EXCEPT !._index = 0], item.startDate, k).date

\* C26 as stated: the k-th instance of an iteration without constraint
\* starts on the anchor advanced by k * interval units, later than the
\* instance before it.
C26_KthInstanceIsAnchorPlusKIntervals ==
    recurringInstanceReturned =>
        /\ ret.startDate = anchorAdvanced(item._index)
        /\ item._index >= 1 => ret.startDate.n > stepsFromAnchor(item._index - 1).n

\* C26 as amended: the k-th instance of an iteration without constraint
\* starts on the anchor after k successive steps of one interval each, later
\* than the instance before it: k * interval days or weeks after the anchor
\* on a day or week rule; on a month or year rule in the month that is
\* k * interval months (or years) after the anchor's, on the anchor's day of
\* the month or an earlier one, each step cutting the day down to the length
\* of the month it reaches.
C26_KthInstanceIsKStepsFromAnchor ==
    recurringInstanceReturned =>
        /\ ret.startDate = stepsFromAnchor(item._index)
        /\ item._index >= 1 => ret.startDate.n > stepsFromAnchor(item._index - 1).n
        /\ CASE item.recurrence.type = S_day ->
                   ret.startDate.n = item.startDate.n
                                        + item._index * item.recurrence.interval
             [] item.recurrence.type = S_week ->
                   ret.startDate.n = item.startDate.n
                                        + 7 * item._index * item.recurrence.interval
             [] item.recurrence.type = S_month ->
                   /\ monthNumber(ret.startDate) = monthNumber(item.startDate)
                                        + item._index * item.recurrence.interval
                   /\ getDate(ret.startDate) <= getDate(item.startDate)
             [] item.recurrence.type = S_year ->
                   /\ monthNumber(ret.startDate) = monthNumber(item.startDate)
                                        + 12 * item._index * item.recurrence.interval
                   /\ getDate(ret.startDate) <= getDate(item.startDate)

\* C26: the third instance of a monthly event that starts on 2019-01-31 has
\* been returned: it starts on 2019-03-28, the step to February having cut
\* the day down
C26_Witness ==
    /\ recurringInstanceReturned
    /\ item.recurrence.type = S_month
    /\ item._index = 2
    /\ ret.startDate # anchorAdvanced(2)
    /\ ret.startDate = DateV(DayNumber(2019, 2, 28))

\* every call of the sequence was made with the same year and month
fixedConstraint ==
    \A i \in 1..Len(sequence) :
        sequence[i].year = sequence[1].year /\ sequence[i].month = sequence[1].month

\* C25: in a sequence getFirstEventInstance(year, month),
\* getNextEventInstance(year, month), ... on a recurring event, with the
\* same year and month in every call, no two calls return instances with the
\* same start date.
C25_NoOccurrenceReturnedTwice ==
    (fixedConstraint /\ item.recurrence # JSNull
     /\ item.recurrence.type \in RecurrenceTypes) =>
        \A i, j \in 1..Len(sequence) :
            (i < j /\ sequence[i].start # JSNull /\ sequence[j].start # JSNull) =>
                sequence[i].start # sequence[j].start

\* the i-th call of the sequence returned null and the j-th came after it
nullBefore(i, j) == i < j /\ sequence[i].start = JSNull

queryIssued == page'.query.n = page.query.n + 1

\* C22: without inline jsonData a caching calendar asks the network only on
\* a query without direction and renders every query with a direction from
\* the saved data, a calendar that does not cache asks on every query; with
\* inline jsonData no query asks the network.
C22_RequestsFollowCachePolicy ==
    [][queryIssued =>
         IF Truthy(settings.jsonData)
         THEN /\ page'.requests = page.requests
              /\ page'.pending = page.pending
         ELSE IF settings.cacheJson /\ Truthy(page'.query.direction)
         THEN /\ page'.requests = page.requests
              /\ page'.pending = page.pending
              /\ page'.rendered = [data |-> page.eventsJson, query |-> page'.query]
         ELSE /\ page'.requests = page.requests + 1
              /\ page'.pending = page.pending \cup {page'.query}]_vars
C22_Witness ==
    /\ settings.cacheJson
    /\ ~Truthy(settings.jsonData)
    /\ page.query.n = MaxQueries
    /\ Truthy(page.query.direction)
    /\ page.rendered.query = page.query
    /\ page.rendered.data = 1
    /\ page.requests = 1

\* C23: however often the plugin is called on the element, one EventCalendar
\* is constructed, and a later call leaves the stored instance, the settings
\* and the registered handlers as they are.
C23_OneEventCalendarPerElement ==
    [][(page'.calls = page.calls + 1) =>
         /\ page'.constructed = 1
         /\ page'.eventCalendar = 1
         /\ page.calls >= 1 =>
                /\ page'.eventCalendar = page.eventCalendar
                /\ page'.handlers = page.handlers
                /\ settings' = settings]_vars
C23_Witness ==
    /\ page.calls = MaxPluginCalls
    /\ page.constructed = 1
    /\ page.handlers = 1
    /\ page.query.n > 0

\* C28: once every response has been delivered, whatever the order, the
\* rendered list and the saved eventsJson are those of the last query issued,
\* when every query was sent to the network and none failed.
C28_LastQueryWins ==
    (/\ page.query.n >= 2
     /\ ~Truthy(settings.jsonData)
     /\ page.requests = page.query.n
     /\ page.pending = {}
     /\ ~page.failed)
        => /\ page.rendered.query = page.query
           /\ page.eventsJson = page.query.n
           /\ page.rendered.data = page.query.n

\* C29: during a drag, from the mousedown on an element to the next mouseup,
\* window.$dndMovedElement is the dragged element, wherever the timers of the
\* earlier mouseups fire.
C29_MovedElementIsTheDraggedOne ==
    dnd.pressed \in DndElements => dnd.dndMovedElement = dnd.pressed

\* the half-open intervals [s, e) and [t, t + period) have an instant in common
overlaps(curEvent, t) ==
    /\ curEvent[1] < curEvent[2]
    /\ curEvent[1] < t + period
    /\ t < curEvent[2]

\* C30: a booking slot [t, t + period) of the day view is closed exactly when
\* the interval [startDate, endDate) of a listed instance overlaps it, so the
\* slot that begins when an instance ends is open.
C30_ClosedExactlyWhenOverlapped ==
    \A k \in 1..Len(routine.list) :
        routine.list[k].closed <=>
            \E i \in 1..Len(routine.eventsInRoutine) :
                overlaps(routine.eventsInRoutine[i], routine.list[k].t)

=============================================================================
